---- MODULE Spec2Model ----
(***************************************************************************)
(* A model of ScreenMonitorMCP v2: the MCP resource cache, the SSE and     *)
(* WebSocket JSON-RPC dispatchers, the auto-push producers and the frame   *)
(* skipper.  Every definition is a translation of the Python source named  *)
(* in the comment above it.                                                *)
(***************************************************************************)
EXTENDS Integers, Sequences, FiniteSets, TLC

(***************************************************************************)
(* Bounds of the model.                                                    *)
(***************************************************************************)
\* single cache insertions explored per behaviour of SpecCache
MaxInserts == 3
\* capture_screen calls made through tools/call per behaviour of Spec
MaxToolCalls == 2
\* captures explored per behaviour of SpecRead
MaxCaptures == 2
\* broadcast tasks started per behaviour of Spec
MaxBroadcasts == 1
\* auto-push tasks created per behaviour of SpecStream
MaxTasks == 1
\* auto-push tasks created per behaviour of SpecRestart
MaxRestartTasks == 2
\* frames the auto-push tasks capture per behaviour of SpecStream
MaxGrabs == 1
\* messages and loop passes of the gaming endpoint per behaviour of SpecSkip
MaxIterations == 8
\* direct calls of the skipper's methods per behaviour of SpecSkipper
MaxSkipperCalls == 4
\* direct calls of the quality controller's methods per behaviour of SpecQuality
MaxControllerCalls == 4
\* frames one run of the SSE producer records per behaviour of SpecQuality
MaxProducerFrames == 12
\* calls that set a frame rate or a quality per behaviour of SpecConfig
MaxConfigCalls == 3
\* notifications broadcast to the SSE clients per behaviour of SpecSseHub
MaxPublished == 11
\* broadcasts to the WebSocket clients per behaviour of SpecWsHub
MaxWsBroadcasts == 3

(***************************************************************************)
(* Values.                                                                 *)
(***************************************************************************)
\* Python's None, for a field of string type
None == "None"

\* monitors a tool call may name; mss knows the monitors in ConnectedMonitors
Monitors == {0, 1}
ConnectedMonitors == {0, 1}

\* the bytes img.save writes for a grab of the monitor, JPEG when format is
\* "jpeg" and PNG otherwise: the first byte is the signature of the encoding
Save(monitor, format) ==
    IF format = "jpeg" THEN <<255, 216, monitor>>
    ELSE IF monitor = 0 THEN <<137, 80>> ELSE <<137, 80, 78>>

\* the encoded image ScreenCapture.capture_screen(monitor) yields: the format
\* is left at its default, "png"
Screen == [m \in Monitors |-> Save(m, "png")]

\* the MIME type of the encoding some bytes are in, by their signature
MimeOf(bytes) ==
    IF bytes[1] = 137 THEN "image/png"
    ELSE IF bytes[1] = 255 THEN "image/jpeg" ELSE None

\* (format, quality) arguments of a capture_screen call
Shots == {[format |-> "png", quality |-> 85], [format |-> "jpeg", quality |-> 50]}

(***************************************************************************)
(* base64, as base64.b64encode / base64.b64decode compute it: a sextet is  *)
(* a number 0..63 and the padding character "=" is Pad.                    *)
(***************************************************************************)
Pad == 64

RECURSIVE b64encode(_)
b64encode(bs) ==
    IF Len(bs) = 0 THEN <<>>
    ELSE IF Len(bs) = 1 THEN
        <<bs[1] \div 4, (bs[1] % 4) * 16, Pad, Pad>>
    ELSE IF Len(bs) = 2 THEN
        <<bs[1] \div 4, (bs[1] % 4) * 16 + bs[2] \div 16, (bs[2] % 16) * 4, Pad>>
    ELSE
        <<bs[1] \div 4, (bs[1] % 4) * 16 + bs[2] \div 16,
          (bs[2] % 16) * 4 + bs[3] \div 64, bs[3] % 64>>
        \o b64encode(SubSeq(bs, 4, Len(bs)))

RECURSIVE b64decode(_)
b64decode(cs) ==
    IF Len(cs) < 4 THEN <<>>
    ELSE
        LET b1 == cs[1] * 4 + cs[2] \div 16
            b2 == (cs[2] % 16) * 16 + cs[3] \div 4
            b3 == (cs[3] % 4) * 64 + cs[4]
            rest == b64decode(SubSeq(cs, 5, Len(cs)))
        IN  IF cs[3] = Pad THEN <<b1>> \o rest
            ELSE IF cs[4] = Pad THEN <<b1, b2>> \o rest
            ELSE <<b1, b2, b3>> \o rest

(***************************************************************************)
(* The MCP resource cache (mcp_server.py).  _image_cache is an OrderedDict:*)
(* here a sequence of entries in the dictionary's order, first = oldest.   *)
(***************************************************************************)
_MAX_CACHE_SIZE == 120

\* resource_uri = "screen://capture/" + md5(timestamp_monitor)[:12]; the
\* digest is kept as the pair it is computed from
CaptureScheme == "screen://capture/"

ResourceUri(metadata) ==
    [scheme |-> CaptureScheme, id |-> <<metadata.timestamp, metadata.monitor>>]

CacheKeys(cache) == {cache[i].uri : i \in 1..Len(cache)}

CacheIndex(cache, uri) == CHOOSE i \in 1..Len(cache) : cache[i].uri = uri

\* _image_cache[resource_uri] = (...): an OrderedDict assignment to a key
\* that is present replaces the value and keeps the key's position
CacheStore(cache, entry) ==
    IF entry.uri \in CacheKeys(cache)
    THEN [cache EXCEPT ![CacheIndex(cache, entry.uri)] = entry]
    ELSE Append(cache, entry)

\* a trim that lets one entry more than _MAX_CACHE_SIZE stay
CacheTrimOffByOne(cache) ==
    IF Len(cache) > _MAX_CACHE_SIZE + 1
    THEN SubSeq(cache, Len(cache) - _MAX_CACHE_SIZE, Len(cache))
    ELSE cache

\* while len(_image_cache) > _MAX_CACHE_SIZE: popitem(last=False)
CacheTrim(cache) ==
    IF Len(cache) > _MAX_CACHE_SIZE
    THEN SubSeq(cache, Len(cache) - _MAX_CACHE_SIZE + 1, Len(cache))
    ELSE cache

\* _add_to_cache(image_data, mime_type, metadata): the cache afterwards
\* (the URI it returns is ResourceUri(metadata))
_add_to_cache(cache, image_data, mime_type, metadata) ==
    CacheTrim(CacheStore(cache,
        [uri |-> ResourceUri(metadata), image_data |-> image_data,
         mime_type |-> mime_type, metadata |-> metadata]))


(***************************************************************************)
(* JSON-RPC messages.  A request is [method, params, id]; id is <<>> when  *)
(* the message carries none (request_data.get("id") is None) and <<n>>     *)
(* otherwise.  params is [dict, name, args_ok, uri]: dict is FALSE when the*)
(* "params" member is not an object (params.get then raises).              *)
(***************************************************************************)
NoId == <<>>

NoUri == [scheme |-> None, id |-> <<>>]

MethodNotFound == -32601
ParseError == -32700
ServerError == -32000

Result(id, body) == [kind |-> "result", id |-> id, code |-> 0, body |-> body]

Error(id, code, message) ==
    [kind |-> "error", id |-> id, code |-> code, body |-> [tag |-> message]]

\* the dispatcher returned None: nothing is sent for the message
NoResponse == [kind |-> "none", id |-> NoId, code |-> 0, body |-> [tag |-> None]]

\* names registered with @mcp.tool() / @mcp.prompt() that the model calls
ToolNames == {"capture_screen"}
PromptNames == {"capture_screenshot_prompt"}

\* tools/call: the lookup in mcp._tool_manager.list_tools(), then the call.
\* tool is what the call did: [raised, text]
ToolsCall(request_id, name, tool) ==
    IF name \notin ToolNames
    THEN Error(request_id, MethodNotFound, "Tool not found")
    ELSE IF tool.raised
    THEN Error(request_id, ServerError, "Tool execution failed")
    ELSE Result(request_id, [tag |-> "content", text |-> tool.text])

PromptsGet(request_id, name) ==
    IF name \notin PromptNames
    THEN Error(request_id, MethodNotFound, "Prompt not found")
    ELSE Result(request_id, [tag |-> "messages"])

IsNotification(method) == method = "notifications/initialized"

CacheEntry(cache, uri) == cache[CacheIndex(cache, uri)]

\* methods whose branch reads params.get(...)
UsesParams(method) == method \in {"tools/call", "resources/read", "prompts/get"}

(***************************************************************************)
(* mcp_sse_server._process_mcp_request: the response returned, NoResponse  *)
(* for None.                                                               *)
(***************************************************************************)
SseResourcesRead(request_id, uri, cache) ==
    IF uri.scheme = CaptureScheme
    THEN IF uri \notin CacheKeys(cache)
         THEN Error(request_id, ServerError, "Resource not found")
         ELSE Result(request_id,
                  [tag |-> "contents", uri |-> uri,
                   mimeType |-> CacheEntry(cache, uri).mime_type,
                   blob |-> CacheEntry(cache, uri).image_data])
    ELSE NoResponse   \* the branch ends without a return statement

\* an unknown method answered with the error whether or not it has an id
SseUnknownMethodAnyId(request_id) ==
    Error(request_id, MethodNotFound, "Method not found")

\* the dispatcher's last branch, for a method it does not know: the error
\* if request_id is not None, and None for a notification
SseUnknownMethod(request_id) ==
    IF request_id # NoId
    THEN Error(request_id, MethodNotFound, "Method not found")
    ELSE NoResponse

SseProcessMcpRequest(request, cache, tool) ==
    LET method == request.method
        params == request.params
        request_id == request.id
    IN  IF UsesParams(method) /\ ~params.dict
        THEN Error(request_id, ServerError, "Internal error")   \* except Exception
        ELSE CASE method = "initialize" ->
                    Result(request_id, [tag |-> "initialize", binaryResources |-> FALSE])
               [] method = "tools/list" -> Result(request_id, [tag |-> "tools"])
               [] method = "tools/call" -> ToolsCall(request_id, params.name, tool)
               [] method = "resources/list" -> Result(request_id, [tag |-> "resources"])
               [] method = "resources/read" ->
                    SseResourcesRead(request_id, params.uri, cache)
               [] method = "prompts/list" -> Result(request_id, [tag |-> "prompts"])
               [] method = "prompts/get" -> PromptsGet(request_id, params.name)
               [] IsNotification(method) -> NoResponse
               [] OTHER -> SseUnknownMethod(request_id)

(***************************************************************************)
(* mcp_websocket_server: _send_binary_resource and _process_mcp_request.   *)
(* A frame is [frame, payload]: a text frame carries a JSON message, a     *)
(* binary frame carries bytes.                                             *)
(***************************************************************************)
TextFrame(msg) == [frame |-> "text", msg |-> msg, bytes |-> <<>>]
BinaryFrame(bytes) == [frame |-> "binary", msg |-> [tag |-> None], bytes |-> bytes]

\* BinaryResourceResponse(uri, mime_type, data, metadata)
BinaryResourceResponse(uri, mime_type, data, metadata) ==
    [uri |-> uri, mime_type |-> mime_type, data |-> data, metadata |-> metadata]

\* a metadata frame that announces the size of the base64 text
SendBinaryResourceBase64Size(response) ==
    << TextFrame([tag |-> "resource_metadata", uri |-> response.uri,
                  mimeType |-> response.mime_type,
                  size |-> Len(b64encode(response.data)),
                  metadata |-> response.metadata]),
       BinaryFrame(response.data) >>

\* the frames _send_binary_resource sends, in order
SendBinaryResource(response) ==
    << TextFrame([tag |-> "resource_metadata", uri |-> response.uri,
                  mimeType |-> response.mime_type, size |-> Len(response.data),
                  metadata |-> response.metadata]),
       BinaryFrame(response.data) >>

\* resources/read on the WebSocket: [frames, response]
WsResourcesRead(request_id, uri, cache) ==
    IF uri.scheme = CaptureScheme
    THEN IF uri \notin CacheKeys(cache)
         THEN [frames |-> <<>>,
               response |-> Error(request_id, ServerError, "Resource not found")]
         ELSE LET e == CacheEntry(cache, uri)
                  image_bytes == b64decode(e.image_data)
              IN  [frames |-> SendBinaryResource(
                       BinaryResourceResponse(uri, e.mime_type, image_bytes, e.metadata)),
                   response |-> Result(request_id,
                       [tag |-> "binary_ack", uri |-> uri, binary |-> TRUE,
                        size |-> Len(image_bytes), mimeType |-> e.mime_type])]
    ELSE [frames |-> <<>>, response |-> NoResponse]   \* no return statement

\* the dispatcher's last branch, for a method it does not know
WsUnknownMethod(request_id) ==
    IF request_id # NoId
    THEN Error(request_id, MethodNotFound, "Method not found")
    ELSE NoResponse

WsProcessMcpRequest(request, cache, tool) ==
    LET method == request.method
        params == request.params
        request_id == request.id
        only(r) == [frames |-> <<>>, response |-> r]
    IN  IF UsesParams(method) /\ ~params.dict
        THEN only(Error(request_id, ServerError, "Internal error"))
        ELSE CASE method = "initialize" ->
                    only(Result(request_id, [tag |-> "initialize", binaryResources |-> TRUE]))
               [] method = "tools/list" -> only(Result(request_id, [tag |-> "tools"]))
               [] method = "tools/call" -> only(ToolsCall(request_id, params.name, tool))
               [] method = "resources/list" -> only(Result(request_id, [tag |-> "resources"]))
               [] method = "resources/read" -> WsResourcesRead(request_id, params.uri, cache)
               [] method = "prompts/list" -> only(Result(request_id, [tag |-> "prompts"]))
               [] method = "prompts/get" -> only(PromptsGet(request_id, params.name))
               [] IsNotification(method) -> only(NoResponse)
               [] OTHER -> only(WsUnknownMethod(request_id))


(***************************************************************************)
(* The capture backend and the capture tools (screen_capture.py,           *)
(* mcp_server.py).                                                         *)
(***************************************************************************)
\* what ScreenCapture.capture_screen(monitor) returns: success with the
\* base64 of the grabbed image, or success = False (every exception of the
\* grab is caught and reported that way)
CaptureFailed == [success |-> FALSE, image_data |-> <<>>]

CaptureResults(monitor) ==
    IF monitor \in ConnectedMonitors
    THEN {[success |-> TRUE, image_data |-> b64encode(Screen[monitor])], CaptureFailed}
    ELSE {CaptureFailed}

\* the string a tool returns: the JSON of a success, or "Error: ..."
ToolSuccess(resource_uri, mime_type, metadata) ==
    [success |-> TRUE, resource_uri |-> resource_uri,
     mime_type |-> mime_type, metadata |-> metadata]

ToolError(message) ==
    [success |-> FALSE, resource_uri |-> NoUri,
     mime_type |-> None, metadata |-> [error |-> message]]

\* no capture tool has been called
NoRet == [op |-> None, flip |-> FALSE, ret |-> ToolError(None)]

\* capture_screen(monitor, format, quality) with the backend's result and
\* the datetime.now() it reads: [cache, ret]
capture_screen(cache, monitor, shot, capture_result, timestamp) ==
    IF ~capture_result.success
    THEN [cache |-> cache, ret |-> ToolError("Failed to capture screen")]
    ELSE LET metadata == [timestamp |-> timestamp, monitor |-> monitor,
                          width |-> None, height |-> None,
                          format |-> shot.format,
                          quality |-> IF shot.format = "jpeg" THEN shot.quality ELSE 100]
             mime_type == "image/" \o shot.format
         IN  [cache |-> _add_to_cache(cache, capture_result.image_data,
                                      mime_type, metadata),
              ret |-> ToolSuccess(ResourceUri(metadata), mime_type, metadata)]

\* stream_info.get(key, default) on the dict the stream manager returns
InfoGet(stream_info, key, default) ==
    IF key \in DOMAIN stream_info THEN stream_info[key] ELSE default

\* a capture_stream_frame that caches the frame of a failed capture
CaptureFrameCachesFailure(cache, stream_id, found, stream_info, capture_result, timestamp) ==
    IF ~found
    THEN [cache |-> cache, ret |-> ToolError("Stream not found")]
    ELSE LET metadata == [timestamp |-> timestamp, stream_id |-> stream_id,
                          monitor |-> InfoGet(stream_info, "monitor", 0),
                          width |-> None, height |-> None,
                          format |-> InfoGet(stream_info, "format", "jpeg"),
                          quality |-> InfoGet(stream_info, "quality", 75)]
             mime_type == "image/" \o InfoGet(stream_info, "format", "jpeg")
             cache2 == _add_to_cache(cache, capture_result.image_data, mime_type, metadata)
         IN  IF ~capture_result.success
             THEN [cache |-> cache2, ret |-> ToolError("Failed to capture frame")]
             ELSE [cache |-> cache2,
                   ret |-> ToolSuccess(ResourceUri(metadata), mime_type, metadata)]

\* capture_stream_frame(stream_id): stream_info is the manager's answer,
\* found = FALSE when it is empty
capture_stream_frame(cache, stream_id, found, stream_info, capture_result, timestamp) ==
    IF ~found
    THEN [cache |-> cache, ret |-> ToolError("Stream not found")]
    ELSE IF ~capture_result.success
    THEN [cache |-> cache, ret |-> ToolError("Failed to capture frame")]
    ELSE LET metadata == [timestamp |-> timestamp, stream_id |-> stream_id,
                          monitor |-> InfoGet(stream_info, "monitor", 0),
                          width |-> None, height |-> None,
                          format |-> InfoGet(stream_info, "format", "jpeg"),
                          quality |-> InfoGet(stream_info, "quality", 75)]
             mime_type == "image/" \o InfoGet(stream_info, "format", "jpeg")
         IN  [cache |-> _add_to_cache(cache, capture_result.image_data,
                                      mime_type, metadata),
              ret |-> ToolSuccess(ResourceUri(metadata), mime_type, metadata)]


(***************************************************************************)
(* The stream manager (core/streaming.py).  streams maps the id of every   *)
(* live stream to the parameters create_stream was given.                  *)
(***************************************************************************)
StreamIds == {"s1"}

\* create_stream(monitor, fps, quality, format) calls
\* stream_manager.create_stream("screen", fps, quality, format)
StreamInfo(fps, quality, format) ==
    [stream_type |-> "screen", fps |-> fps, quality |-> quality, format |-> format]

NoInfo == [stream_type |-> None]

Without(f, key) == [x \in DOMAIN f \ {key} |-> f[x]]
With(f, key, v) == [x \in DOMAIN f \cup {key} |-> IF x = key THEN v ELSE f[x]]

\* stream_manager.get_stream_info(stream_id): [found, info]
GetStreamInfo(strs, stream_id) ==
    IF stream_id \in DOMAIN strs
    THEN [found |-> TRUE, info |-> strs[stream_id]]
    ELSE [found |-> FALSE, info |-> NoInfo]


(***************************************************************************)
(* State.                                                                  *)
(***************************************************************************)
VARIABLES
    _image_cache,   \* mcp_server._image_cache
    clock,          \* the last value datetime.now() returned
    streams,        \* the stream manager's sessions
    requested,      \* history: the arguments create_stream was called with, per stream
    lastRet,        \* history: what the last capture tool call returned; flip
                    \* changes with every call
    \* history of the cache, kept for the properties
    seq,            \* insertions made so far
    lastIns,        \* for every URI in the cache, the number of its latest insertion
    evictLog,       \* the last eviction: the evicted entry's latest insertion and
                    \* the oldest latest insertion among the entries kept
    calls,          \* single tool calls that inserted into the cache
    bulkDone,       \* the run of captures that fills the cache has been taken
    \* the MCP transports
    receipts,       \* history: what every capture that returned a URI inserted
    lastRead,       \* the last resources/read of a returned URI and its answer
    exch,           \* the request being served or served last, with the
                    \* messages sent to its client since it arrived
    ws_open,        \* the WebSocket client is in _ws_connections
    bcast,          \* frames a broadcast task still has to send
    broadcasts,     \* broadcast tasks started so far
    garbled,        \* history: the WebSocket client has sent text that is not JSON
    \* streams and their auto-push tasks
    gaming_adaptive_quality,  \* config.gaming_adaptive_quality
    tasks,                    \* the asyncio tasks created so far, in order of creation
    _auto_push_streams,       \* mcp_sse_server._auto_push_streams: stream id -> task
    _ws_auto_push_streams,    \* mcp_websocket_server._ws_auto_push_streams
    _stream_metrics,          \* the keys of mcp_sse_server._stream_metrics
    sse_connected,            \* an SSE client has its queue in _sse_connections
    sse_queue,                \* the messages put on that queue
    stopping,                 \* streams whose stop_stream call awaits the stream manager
    retired,                  \* ids of streams the stream manager has removed
    grabs,                    \* frames the auto-push tasks have captured so far
    \* history of the streams, kept for the properties
    returned,                 \* streams for which a stop_stream call has returned
    pushed,                   \* per transport, streams started and not stopped since
    lastCall,                 \* the start or stop call the last step made, if any
    delivered,                \* what the auto-push tasks delivered, and whether late
    stopSeen,                 \* streams stopped while one of their tasks was alive
    halted,                   \* per transport, streams whose task a stop has removed
    \* the gaming WebSocket endpoint and its frame skipper
    now,            \* the last value time.time() returned, in milliseconds
    game_open,      \* a client is connected to game_stream_websocket
    streaming,      \* the endpoint's local flag
    game_config,    \* the endpoint's GameStreamConfig, or NoConfig
    skipper,        \* the endpoint's FrameSkipper, or NoSkipper
    frames_sent,    \* "frame" messages sent to the client
    _capture_cache, \* ScreenCapture._capture_cache: the entry under the endpoint's
                    \* key, as the time it was cached
    game_frames,    \* history: the last two frames sent to the client
    game_sent,      \* history: whether "started" and "stopped" were sent on the connection
    iterations,     \* passes of the endpoint's loop made so far
    \* history of the skipper, kept for the properties
    skipRun,        \* should_skip_frame calls that returned true in a row
    lastSkip,       \* the last should_skip_frame call: the run before it, its answer
    dry,            \* passes in a row that sent no frame though no capture failed
    game_metrics,   \* the endpoint's FrameMetrics counters, or NoMetrics
    recorded,       \* history: add_frame calls with neither flag, and with both
    controller,     \* an AdaptiveQualityController, or NoController
    producer,       \* one run of _auto_push_stream_frames, seen for its quality
    probe,          \* the last direct call of a method: its receiver before and
                    \* after, its arguments and what it returned
    server_config,  \* server.config.config: the gaming fields of the settings
    preset_config,  \* preset_loader.presets[name]["config"]: its fps and quality
    push_fps,       \* per stream, the fps its last SSE auto-push task was created with
    lastTool,       \* the last configuring call: its arguments, whether it was
                    \* refused, whether anything changed
    \* the connection registries and the broadcasts, with any number of clients
    _sse_connections,   \* mcp_sse_server._sse_connections: connection id -> queue
    sse_emitted,        \* history: per SSE connection ever made, the messages its
                        \* event_generator has yielded, in order
    published,          \* notifications broadcast so far: the last one's number
    _ws_connections,    \* mcp_websocket_server._ws_connections: the connection ids
    ws_failed,          \* history: connections a broadcast's send has failed for
    lastBroadcast,      \* history: the connections the last WebSocket broadcast
                        \* tried, and those of them that had failed before
    \* the capture backends
    platform_system,    \* platform.system(), or None before the server has started
    backends,           \* OptimizedWindowsCapture.backends: the names initialized
    active_backend,     \* OptimizedWindowsCapture.active_backend, or None
    _performance_stats, \* ScreenCapture._performance_stats: the two capture counters
    booted,             \* history: how the initialization of each backend went
    lastGrab            \* history: the last _capture_screen_sync call

varsCache == <<_image_cache, clock, streams, requested, lastRet, seq, lastIns, evictLog,
               calls, bulkDone>>

varsRpc == <<receipts, lastRead, exch, ws_open, bcast, broadcasts, garbled>>

varsStream == <<gaming_adaptive_quality, tasks, _auto_push_streams, _ws_auto_push_streams,
                _stream_metrics, sse_connected, sse_queue, stopping, retired, grabs,
                returned, pushed, lastCall, delivered, stopSeen, halted>>

varsSkip == <<now, game_open, streaming, game_config, skipper, frames_sent,
              _capture_cache, game_frames, game_sent, iterations,
              skipRun, lastSkip, dry, game_metrics, recorded, controller, producer,
              probe>>

\* varsSkip without the call counter
skipState == <<now, game_open, streaming, game_config, skipper, frames_sent,
               _capture_cache, game_frames, game_sent, skipRun,
               lastSkip, dry, game_metrics, recorded, controller, producer, probe>>

varsConfig == <<server_config, preset_config, push_fps, lastTool>>

varsHub == <<_sse_connections, sse_emitted, published, _ws_connections, ws_failed,
             lastBroadcast>>

varsBackend == <<platform_system, backends, active_backend, _performance_stats, booted,
                 lastGrab>>

vars == <<varsCache, varsRpc, varsHub, varsStream, varsSkip, varsConfig, varsBackend>>

\* the variables SpecCache leaves alone, and those Spec and SpecRead leave alone
notCache == <<varsRpc, varsHub, varsStream, varsSkip, varsConfig, varsBackend>>
notRpc == <<varsStream, varsSkip, varsConfig, varsHub, varsBackend>>
notSkip == <<varsCache, varsRpc, varsHub, varsStream, varsConfig, varsBackend>>

NoParams == [dict |-> TRUE, name |-> None, args_ok |-> TRUE,
             args |-> [monitor |-> 0, format |-> None, quality |-> 0], uri |-> NoUri]

NoRequest == [method |-> None, id |-> NoId, params |-> NoParams]

\* what the exchange records as the request when the text was not JSON
NotJson == [method |-> "not json", id |-> NoId, params |-> NoParams]

NoExchange == [transport |-> None, request |-> NoRequest, cached |-> FALSE,
               todo |-> <<>>, sent |-> <<>>, done |-> TRUE]

NoRead == [transport |-> None, uri |-> NoUri, found |-> FALSE,
           bytes |-> <<>>, mimeType |-> None, metadata |-> [error |-> None]]

NoCall == [op |-> None, stream_id |-> None, raised |-> FALSE, again |-> FALSE,
           second |-> FALSE]

NoConfig == [mode |-> None, fps |-> 0, quality |-> 0, enable_frame_skip |-> FALSE,
             adaptive_quality |-> FALSE, max_skip_frames |-> 0, skip_threshold_ms |-> 0]

\* no call that passed an fps or a quality has been made
NoSetting == [op |-> None, fps |-> <<>>, quality |-> <<>>, refused |-> FALSE,
              changed |-> FALSE]

\* Settings(): the gaming fields of server.config.config as they are declared
Settings == [enable_gaming_mode |-> FALSE, gaming_max_fps |-> 60, gaming_quality |-> 50,
             gaming_enable_frame_skip |-> TRUE]

NoBroadcast == [n |-> 0, tried |-> {}, failed_before |-> {}, failed |-> {},
                received |-> {}, raised |-> FALSE]

NoStats == [windows_opt_captures |-> 0, mss_captures |-> 0]

NoGrab == [region |-> FALSE, backend |-> None]

\* before the server has started
InitBackend ==
    /\ platform_system = None
    /\ backends = {}
    /\ active_backend = None
    /\ _performance_stats = NoStats
    /\ booted = [wgc |-> None, dxgi |-> None]
    /\ lastGrab = NoGrab

InitHub ==
    /\ _sse_connections = [c \in {} |-> <<>>]
    /\ sse_emitted = [c \in {} |-> <<>>]
    /\ published = 0
    /\ _ws_connections = {}
    /\ ws_failed = {}
    /\ lastBroadcast = NoBroadcast

InitConfig ==
    /\ server_config = Settings
    /\ preset_config = [fps |-> <<>>, quality |-> <<>>]
    /\ push_fps = [s \in {} |-> 0]
    /\ lastTool = NoSetting

NoSkipper == [target_fps |-> 0, frame_interval |-> 0, max_skip |-> 0, skip_threshold_ms |-> 0,
              last_frame_time |-> 0, consecutive_skips |-> 0]

\* no capture is cached
NoCapture == <<>>

NoFrame == [start |-> -1, fps |-> 0, taken |-> -1, cached |-> FALSE]

NoFrames == [prev |-> NoFrame, last |-> NoFrame]

\* nothing was sent on the connection yet
NoSent == [started |-> FALSE, stopped |-> FALSE]

NoSkip == [called |-> FALSE, before |-> 0, answer |-> FALSE]

NoProbe == [op |-> None]

NoProducer == [pc |-> "none", adaptive |-> FALSE, total_frames |-> 0, dropped_frames |-> 0,
               current_quality |-> 0, all_low |-> TRUE, used |-> {}]

NoController == [target_fps |-> 0, min_quality |-> 0, max_quality |-> 0,
                 adjustment_interval |-> 0, current_quality |-> 0, frame_count |-> 0]

NoMetrics == [total_frames |-> -1, dropped_frames |-> 0, skipped_frames |-> 0]

NoneRecorded == [processed |-> 0, both |-> 0]

InitSkip ==
    /\ now = 0
    /\ game_open = FALSE
    /\ streaming = FALSE
    /\ game_config = NoConfig
    /\ skipper = NoSkipper
    /\ frames_sent = 0
    /\ _capture_cache = NoCapture
    /\ game_frames = NoFrames
    /\ game_sent = NoSent
    /\ iterations = 0
    /\ skipRun = 0
    /\ lastSkip = NoSkip
    /\ dry = 0
    /\ game_metrics = NoMetrics
    /\ recorded = NoneRecorded
    /\ controller = NoController
    /\ producer = NoProducer
    /\ probe = NoProbe

InitStream ==
    /\ gaming_adaptive_quality = TRUE
    /\ tasks = <<>>
    /\ _auto_push_streams = [s \in {} |-> 0]
    /\ _ws_auto_push_streams = [s \in {} |-> 0]
    /\ _stream_metrics = {}
    /\ sse_connected = FALSE
    /\ sse_queue = <<>>
    /\ stopping = {}
    /\ retired = {}
    /\ grabs = 0
    /\ returned = {}
    /\ pushed = [transport \in {"sse", "ws"} |-> {}]
    /\ lastCall = NoCall
    /\ delivered = {}
    /\ stopSeen = {}
    /\ halted = [transport \in {"sse", "ws"} |-> {}]

InitRpc ==
    /\ receipts = <<>>
    /\ lastRead = NoRead
    /\ exch = NoExchange
    /\ ws_open = FALSE
    /\ bcast = <<>>
    /\ broadcasts = 0
    /\ garbled = FALSE

InitCache ==
    /\ _image_cache = <<>>
    /\ clock = 0
    /\ streams = [s \in {} |-> NoInfo]
    /\ requested = [s \in {} |-> NoInfo]
    /\ lastRet = NoRet
    /\ seq = 0
    /\ lastIns = [u \in {} |-> 0]
    /\ evictLog = [happened |-> FALSE, stamp |-> 0, minKept |-> 0]
    /\ calls = 0
    /\ bulkDone = FALSE
    /\ InitRpc
    /\ InitStream
    /\ InitSkip
    /\ InitConfig
    /\ InitHub
    /\ InitBackend

SetMin(S) == CHOOSE m \in S : \A x \in S : m <= x

\* the history after one _add_to_cache call that turned cache into cache2
\* by inserting uri as insertion number n
HistLastIns(li, cache2, uri, n) ==
    [u \in CacheKeys(cache2) |-> IF u = uri THEN n ELSE li[u]]

HistEvict(li, cache, cache2, uri, n, log) ==
    LET gone == (CacheKeys(cache) \cup {uri}) \ CacheKeys(cache2)
        li2 == HistLastIns(li, cache2, uri, n)
    IN  IF gone = {} THEN log
        ELSE [happened |-> TRUE,
              stamp |-> SetMin({IF u = uri THEN n ELSE li[u] : u \in gone}),
              minKept |-> SetMin({li2[u] : u \in CacheKeys(cache2)})]

\* the effect of one tool call that returned out = [cache, ret]; a call that
\* fails returns before it reads the clock
ToolEffect(op, out, timestamp) ==
    /\ _image_cache' = out.cache
    /\ lastRet' = [op |-> op, flip |-> ~lastRet.flip, ret |-> out.ret]
    /\ IF out.ret.success
       THEN /\ clock' = timestamp
            /\ seq' = seq + 1
            /\ calls' = calls + 1
            /\ lastIns' = HistLastIns(lastIns, out.cache, out.ret.resource_uri, seq + 1)
            /\ evictLog' = HistEvict(lastIns, _image_cache, out.cache,
                                     out.ret.resource_uri, seq + 1, evictLog)
       ELSE UNCHANGED <<clock, seq, lastIns, evictLog, calls>>

\* capture_screen's default format and quality, and a grab that succeeds
PlainShot == [format |-> "png", quality |-> 85]
PlainResult == [success |-> TRUE, image_data |-> b64encode(Screen[0])]

\* a client calls the capture_screen tool with a format and a quality of
\* shots; datetime.now() returns the value it returned last or a later one
CaptureScreenWith(shots) ==
    /\ calls < MaxInserts
    /\ \E monitor \in Monitors, shot \in shots, timestamp \in {clock, clock + 1} :
         \E capture_result \in CaptureResults(monitor) :
            ToolEffect("capture_screen",
                       capture_screen(_image_cache, monitor, shot,
                                      capture_result, timestamp), timestamp)
    /\ UNCHANGED <<streams, requested, bulkDone, notCache>>

\* a client calls the capture_screen tool with the default format
CaptureScreen == CaptureScreenWith({PlainShot})

\* a client calls create_stream with arguments drawn from the given sets:
\* the tool hands fps, quality and format to the stream manager
CreateStreamWith(monitors, fpss, qualities, formats) ==
    /\ \E stream_id \in StreamIds \ (DOMAIN streams \cup retired),
          monitor \in monitors, fps \in fpss, quality \in qualities, format \in formats :
         /\ streams' = With(streams, stream_id, StreamInfo(fps, quality, format))
         /\ requested' = With(requested, stream_id,
                              [monitor |-> monitor, fps |-> fps, quality |-> quality,
                               format |-> format])
    /\ UNCHANGED <<_image_cache, clock, lastRet, seq, lastIns, evictLog, calls, bulkDone,
                   notCache>>

\* a client calls create_stream with the tool's default arguments
CreateStream == CreateStreamWith({0}, {10}, {80}, {"jpeg"})

\* a client calls the capture_stream_frame tool
CaptureStreamFrame ==
    /\ calls < MaxInserts
    /\ \E stream_id \in StreamIds, timestamp \in {clock, clock + 1} :
         LET si == GetStreamInfo(streams, stream_id)
         IN  \E capture_result \in CaptureResults(InfoGet(si.info, "monitor", 0)) :
             ToolEffect("capture_stream_frame",
                        capture_stream_frame(_image_cache, stream_id, si.found, si.info,
                                             capture_result, timestamp), timestamp)
    /\ UNCHANGED <<streams, requested, bulkDone, notCache>>

\* k successive capture_screen(0) calls, at timestamp + 1 .. timestamp + k
RECURSIVE PlainCaptures(_, _, _)
PlainCaptures(cache, timestamp, k) ==
    IF k = 0 THEN cache
    ELSE IF k = 1
    THEN capture_screen(cache, 0, PlainShot, PlainResult, timestamp + 1).cache
    ELSE LET half == k \div 2
             first == PlainCaptures(cache, timestamp, half)
         IN  IF Len(first) > 0
             THEN PlainCaptures(first, timestamp + half, k - half)
             ELSE first

\* a run of capture_screen(0) calls, the first at the clock's last value or
\* later and each of the others later than the one before, that stops when
\* the cache is full
CaptureScreenRun ==
    /\ ~bulkDone
    /\ Len(_image_cache) < _MAX_CACHE_SIZE
    /\ \E start \in {clock, clock + 1} :
         LET again == ResourceUri([timestamp |-> start, monitor |-> 0])
                         \in CacheKeys(_image_cache)
             room == _MAX_CACHE_SIZE - Len(_image_cache) + (IF again THEN 1 ELSE 0)
             cache2 == PlainCaptures(_image_cache, start - 1, room)
         IN  /\ _image_cache' = cache2
             /\ clock' = start + room - 1
             /\ seq' = seq + room
             /\ lastIns' = [u \in CacheKeys(cache2) |->
                              IF u.id[2] = 0 /\ u.id[1] >= start
                              THEN seq + (u.id[1] - start + 1)
                              ELSE lastIns[u]]
    /\ bulkDone' = TRUE
    /\ UNCHANGED <<streams, requested, lastRet, evictLog, calls, notCache>>

NextCache ==
    \/ CaptureScreen
    \/ CreateStream
    \/ CaptureStreamFrame
    \/ CaptureScreenRun

SpecCache == InitCache /\ [][NextCache]_vars

\* C2: the image cache never holds more than 120 entries, whatever captures
\* are made and in whatever order
CacheNeverExceedsMax == Len(_image_cache) <= _MAX_CACHE_SIZE

\* an insertion into the full cache has evicted an entry and left it full
CacheFullAfterEviction ==
    evictLog.happened /\ Len(_image_cache) = _MAX_CACHE_SIZE

\* C6: an insertion that overflows the cache evicts the entry whose latest
\* insertion is the oldest, an entry inserted again counting as new
EvictsLeastRecentlyInserted ==
    evictLog.happened => evictLog.stamp < evictLog.minKept

(***************************************************************************)
(* Stream sessions: create_stream with any arguments, and the two capture  *)
(* tools called with any format.                                           *)
(***************************************************************************)
StreamFormats == {"jpeg", "png"}
StreamRates == {10, 30}
StreamQualities == {50, 80}

\* a client calls create_stream(monitor, fps, quality, format)
CreateStreamAny == CreateStreamWith(Monitors, StreamRates, StreamQualities, StreamFormats)

\* a client calls capture_screen(monitor, format, quality)
CaptureScreenAny == CaptureScreenWith(Shots)

NextSession ==
    \/ CreateStreamAny
    \/ CaptureScreenAny
    \/ CaptureStreamFrame

SpecSession == InitCache /\ [][NextSession]_vars

\* the cache entries that are frames of a stream
StreamEntries ==
    {i \in 1..Len(_image_cache) : "stream_id" \in DOMAIN _image_cache[i].metadata}

\* C31: get_stream_info of a stream reports the monitor (0 when the answer
\* names none), fps, quality and format create_stream was called with, and
\* the frames captured for the stream are grabs of that monitor
StreamKeepsRequestedParameters ==
    /\ \A s \in DOMAIN streams :
          LET info == GetStreamInfo(streams, s).info
          IN  /\ InfoGet(info, "monitor", 0) = requested[s].monitor
              /\ InfoGet(info, "fps", -1) = requested[s].fps
              /\ InfoGet(info, "quality", -1) = requested[s].quality
              /\ InfoGet(info, "format", None) = requested[s].format
    /\ \A i \in StreamEntries :
          LET e == _image_cache[i]
          IN  /\ e.metadata.monitor = requested[e.metadata.stream_id].monitor
              /\ b64decode(e.image_data) = Screen[requested[e.metadata.stream_id].monitor]

\* C32: every cache entry's MIME type is image/png or image/jpeg and is the
\* MIME type of the encoding its bytes are in
MimeTypeIsTheEncoding ==
    \A i \in 1..Len(_image_cache) :
        /\ _image_cache[i].mime_type \in {"image/png", "image/jpeg"}
        /\ _image_cache[i].mime_type = MimeOf(b64decode(_image_cache[i].image_data))

\* C39: a capture_screen or capture_stream_frame call that returns an error
\* leaves the resource cache as it was and returns no URI
FailedCallLeavesCache ==
    [][(lastRet'.flip # lastRet.flip /\ ~lastRet'.ret.success)
          => /\ _image_cache' = _image_cache
             /\ lastRet'.ret.resource_uri = NoUri]_vars

\* a capture of a stream's frame has failed while the cache held entries
FrameCaptureFailedOnFilledCache ==
    /\ lastRet.op = "capture_stream_frame"
    /\ ~lastRet.ret.success
    /\ lastRet.ret.metadata.error = "Failed to capture frame"
    /\ Len(_image_cache) > 0

(***************************************************************************)
(* The MCP transports: POST /sse, the WebSocket endpoint /mcp/ws with its  *)
(* message loop, and the broadcast tasks.  One client request is in        *)
(* progress at a time; a broadcast task runs concurrently with it.         *)
(***************************************************************************)
RequestIds == {NoId, <<7>>}

\* arguments of a tools/call of capture_screen: the tool's defaults
CaptureArgs == {[monitor |-> 0, format |-> "png", quality |-> 85]}

\* URIs a resources/read may name: those of the cache, a capture URI that
\* was never cached, a URI of another scheme, and none at all
OtherUri == [scheme |-> "file://", id |-> <<>>]
UncachedUri == [scheme |-> CaptureScheme, id |-> <<-1, 0>>]
ReadUris(cache) == CacheKeys(cache) \cup {UncachedUri, OtherUri, NoUri}

NotADict == [NoParams EXCEPT !.dict = FALSE]

ParamsOf(method, cache) ==
    CASE method = "tools/call" ->
            {NotADict, [NoParams EXCEPT !.name = "no_such_tool"],
             [NoParams EXCEPT !.name = "capture_screen", !.args_ok = FALSE]}
            \cup {[NoParams EXCEPT !.name = "capture_screen", !.args = a] : a \in CaptureArgs}
      [] method = "resources/read" ->
            {NotADict} \cup {[NoParams EXCEPT !.uri = u] : u \in ReadUris(cache)}
      [] method = "prompts/get" ->
            {NotADict, [NoParams EXCEPT !.name = "capture_screenshot_prompt"],
             [NoParams EXCEPT !.name = "no_such_prompt"]}
      [] OTHER -> {NoParams}

Methods == {"initialize", "tools/list", "tools/call", "resources/list",
            "resources/read", "prompts/list", "prompts/get",
            "notifications/initialized", "bogus/method"}

Requests(cache) ==
    UNION {{[method |-> m, id |-> i, params |-> ps] : i \in RequestIds,
                                                      ps \in ParamsOf(m, cache)}
           : m \in Methods}

NoTool == [raised |-> FALSE, text |-> ToolError(None)]

\* the tool a tools/call reaches: tool_func(**tool_params) raises TypeError
\* for arguments the tool does not take, and capture_screen runs otherwise
RunsTool(request) ==
    /\ request.method = "tools/call"
    /\ request.params.dict
    /\ request.params.name \in ToolNames

RunTool(request, cache, capture_result, timestamp) ==
    IF ~RunsTool(request)
    THEN [cache |-> cache, tool |-> NoTool]
    ELSE IF ~request.params.args_ok
    THEN [cache |-> cache, tool |-> [raised |-> TRUE, text |-> ToolError(None)]]
    ELSE LET a == request.params.args
             out == capture_screen(cache, a.monitor,
                                   [format |-> a.format, quality |-> a.quality],
                                   capture_result, timestamp)
         IN  [cache |-> out.cache, tool |-> [raised |-> FALSE, text |-> out.ret]]

\* the grabs a request can meet: one outcome for a request that makes none
Grabs(request) ==
    IF RunsTool(request) /\ request.params.args_ok
    THEN CaptureResults(request.params.args.monitor)
    ELSE {CaptureFailed}

FromHandler(frame) == [origin |-> "handler", frame |-> frame]
FromBroadcast(frame) == [origin |-> "broadcast", frame |-> frame]

\* what a request leaves behind the dispatcher: the cache, the clock and
\* the history of captures
RequestEffect(request, run, timestamp) ==
    /\ _image_cache' = run.cache
    /\ IF RunsTool(request) /\ ~run.tool.raised /\ run.tool.text.success
       THEN clock' = timestamp /\ calls' = calls + 1
       ELSE UNCHANGED <<clock, calls>>

IsRead(request) ==
    request.method = "resources/read" /\ request.params.dict

\* POST /sse with a JSON body: the dispatcher's response is the HTTP body,
\* and a None becomes 204 No Content
SsePost ==
    /\ exch.done
    /\ \E request \in Requests(_image_cache) :
         \E capture_result \in Grabs(request), timestamp \in {clock + 1} :
            LET run == RunTool(request, _image_cache, capture_result, timestamp)
                response == SseProcessMcpRequest(request, _image_cache, run.tool)
            IN  /\ RunsTool(request) => calls < MaxToolCalls
                /\ RequestEffect(request, run, timestamp)
                /\ exch' = [transport |-> "sse", request |-> request,
                            cached |-> IsRead(request)
                                       /\ request.params.uri \in CacheKeys(_image_cache),
                            todo |-> <<>>,
                            sent |-> IF response.kind = "none" THEN <<>>
                                     ELSE <<FromHandler(TextFrame(response))>>,
                            done |-> TRUE]
    /\ UNCHANGED <<streams, requested, lastRet, seq, lastIns, evictLog, bulkDone, receipts,
                   lastRead, ws_open, bcast, broadcasts, garbled, notRpc>>

\* a client opens the WebSocket: accept, registration under _connection_lock
WsConnect ==
    /\ ~ws_open
    /\ bcast = <<>>
    /\ ws_open' = TRUE
    /\ UNCHANGED <<varsCache, receipts, lastRead, exch, bcast, broadcasts, garbled, notRpc>>

\* the message loop receives a text message and runs the dispatcher up to
\* its first send: the frames of the binary resource and the response are
\* what the loop still has to send
WsReceive ==
    /\ ws_open
    /\ exch.done
    /\ \E request \in Requests(_image_cache) :
         \E capture_result \in Grabs(request), timestamp \in {clock + 1} :
            LET run == RunTool(request, _image_cache, capture_result, timestamp)
                o == WsProcessMcpRequest(request, _image_cache, run.tool)
                todo == IF o.response.kind = "none" THEN o.frames
                        ELSE Append(o.frames, TextFrame(o.response))
            IN  /\ RunsTool(request) => calls < MaxToolCalls
                /\ RequestEffect(request, run, timestamp)
                /\ exch' = [transport |-> "ws", request |-> request,
                            cached |-> IsRead(request)
                                       /\ request.params.uri \in CacheKeys(_image_cache),
                            todo |-> todo, sent |-> <<>>, done |-> todo = <<>>]
    /\ UNCHANGED <<streams, requested, lastRet, seq, lastIns, evictLog, bulkDone, receipts,
                   lastRead, ws_open, bcast, broadcasts, garbled, notRpc>>

\* the message loop receives text that json.loads rejects: the except
\* clause inside the loop has the error -32700 with id None to send, and the
\* loop goes on
WsReceiveInvalid ==
    /\ ws_open
    /\ exch.done
    /\ exch' = [transport |-> "ws", request |-> NotJson, cached |-> FALSE,
                todo |-> <<TextFrame(Error(NoId, ParseError, "Parse error"))>>,
                sent |-> <<>>, done |-> FALSE]
    /\ garbled' = TRUE
    /\ UNCHANGED <<varsCache, receipts, lastRead, ws_open, bcast, broadcasts, notRpc>>

\* one await websocket.send_json / send_bytes of the request's handler
WsSend ==
    /\ exch.transport = "ws"
    /\ ~exch.done
    /\ exch' = [exch EXCEPT !.todo = Tail(@),
                            !.sent = Append(@, FromHandler(Head(exch.todo))),
                            !.done = Len(exch.todo) = 1]
    /\ UNCHANGED <<varsCache, receipts, lastRead, ws_open, bcast, broadcasts, garbled, notRpc>>

\* what a broadcast task sends to every client: the JSON message of
\* broadcast_to_ws_clients, or the two frames of broadcast_binary_resource
Notice == TextFrame([tag |-> "notification", method |-> "notifications/resources/updated"])

StreamFrame ==
    BinaryResourceResponse([scheme |-> "stream://", id |-> <<"s1">>], "image/jpeg",
                           Screen[0], [stream_id |-> "s1"])

BroadcastFrames == {<<Notice>>, SendBinaryResource(StreamFrame)}

\* a task calls broadcast_to_ws_clients or broadcast_binary_resource and
\* takes _connection_lock
BroadcastStart ==
    /\ broadcasts < MaxBroadcasts
    /\ bcast = <<>>
    /\ \E frames \in BroadcastFrames :
         bcast' = IF ws_open THEN frames ELSE <<>>
    /\ broadcasts' = broadcasts + 1
    /\ UNCHANGED <<varsCache, receipts, lastRead, exch, ws_open, garbled, notRpc>>

\* one await websocket.send_json / send_bytes of the broadcast task
BroadcastSend ==
    /\ bcast # <<>>
    /\ bcast' = Tail(bcast)
    /\ exch' = IF exch.transport = "ws"
               THEN [exch EXCEPT !.sent = Append(@, FromBroadcast(Head(bcast)))]
               ELSE exch
    /\ UNCHANGED <<varsCache, receipts, lastRead, ws_open, broadcasts, garbled, notRpc>>

Next ==
    \/ SsePost
    \/ WsConnect
    \/ WsReceive
    \/ WsReceiveInvalid
    \/ WsSend
    \/ BroadcastStart
    \/ BroadcastSend

Init == InitCache

Spec == Init /\ [][Next]_vars

\* the messages the request's own handler sent, and the JSON-RPC responses
\* among them
HandlerFrames == SelectSeq(exch.sent, LAMBDA x : x.origin = "handler")

IsResponse(x) ==
    /\ x.frame.frame = "text"
    /\ "kind" \in DOMAIN x.frame.msg
    /\ x.frame.msg.kind \in {"result", "error"}

Responses == SelectSeq(HandlerFrames, IsResponse)

\* C1: a request that carries an id gets exactly one response, a result or
\* an error, with that id, whatever its method and params, on SSE and on WS
ExactlyOneResponsePerId ==
    (exch.done /\ exch.request.id # NoId)
        => /\ Len(Responses) = 1
           /\ Responses[1].frame.msg.id = exch.request.id

\* C4: a WS resources/read of a cached URI makes the handler send the
\* resource_metadata text frame, one binary frame and the result with the
\* request id and binary = true, in this order and nothing else, and the
\* three sizes agree
WsReadSendsMetadataBytesAck ==
    (exch.transport = "ws" /\ exch.done /\ exch.cached)
        => /\ Len(HandlerFrames) = 3
           /\ LET meta == HandlerFrames[1].frame
                  data == HandlerFrames[2].frame
                  ack == HandlerFrames[3].frame
              IN  /\ meta.frame = "text"
                  /\ "tag" \in DOMAIN meta.msg
                  /\ meta.msg.tag = "resource_metadata"
                  /\ meta.msg.uri = exch.request.params.uri
                  /\ data.frame = "binary"
                  /\ IsResponse(HandlerFrames[3])
                  /\ ack.msg.kind = "result"
                  /\ ack.msg.id = exch.request.id
                  /\ ack.msg.body.binary
                  /\ ack.msg.body.mimeType = meta.msg.mimeType
                  /\ meta.msg.size = Len(data.bytes)
                  /\ ack.msg.body.size = Len(data.bytes)

\* a WS read of a cached URI has been served to its end
WsReadServed ==
    /\ exch.transport = "ws" /\ exch.done /\ exch.cached
    /\ Len(HandlerFrames) = 3
    /\ Len(HandlerFrames[2].frame.bytes) > 0

\* C5: on the WS connection nothing is sent between the metadata frame, the
\* binary frame and the acknowledgment of a resource read
ReadFramesContiguous ==
    (exch.transport = "ws" /\ exch.cached)
        => \A i, j, k \in 1..Len(exch.sent) :
              (i < j /\ j < k /\ exch.sent[i].origin = "handler"
                               /\ exch.sent[k].origin = "handler")
                  => exch.sent[j].origin = "handler"

\* C19: when a message without an id has been handled, on POST /sse or on
\* the WebSocket, its handler has sent nothing, whatever the method
NoIdGetsNoResponse ==
    (exch.transport # None /\ exch.done /\ exch.request.id = NoId
       /\ exch.request # NotJson)
        => HandlerFrames = <<>>

\* the methods the dispatchers have a branch for
KnownMethods == {"initialize", "tools/list", "tools/call", "resources/list",
                 "resources/read", "prompts/list", "prompts/get"}

UnknownMethod(request) ==
    /\ request # NotJson
    /\ request.method \notin KnownMethods
    /\ ~IsNotification(request.method)

\* C20: a handled message with an unknown method and an id got one frame, the
\* error -32601 with that id; with no id it got nothing, and the step that
\* handled it left the cache, the streams and the task registries as they were
UnknownMethodErrorOrIgnored ==
    /\ [](exch.transport # None /\ exch.done /\ UnknownMethod(exch.request)
            => IF exch.request.id # NoId
               THEN /\ Len(HandlerFrames) = 1
                    /\ IsResponse(HandlerFrames[1])
                    /\ HandlerFrames[1].frame.msg.kind = "error"
                    /\ HandlerFrames[1].frame.msg.code = -32601
                    /\ HandlerFrames[1].frame.msg.id = exch.request.id
               ELSE HandlerFrames = <<>>)
    /\ [][exch'.transport # None /\ exch' # exch /\ UnknownMethod(exch'.request)
              /\ exch'.request.id = NoId
            => UNCHANGED <<_image_cache, streams, tasks, _auto_push_streams,
                           _ws_auto_push_streams>>]_vars

\* an unknown method with an id has been refused on the WebSocket
UnknownMethodRefused ==
    /\ exch.transport = "ws" /\ exch.done
    /\ UnknownMethod(exch.request) /\ exch.request.id # NoId
    /\ Len(HandlerFrames) = 1
    /\ HandlerFrames[1].frame.msg.code = MethodNotFound

\* C21: a handled resources/read with an id, of a URI that was not in the
\* cache, got from its handler one frame only, the error -32001: on the
\* WebSocket no metadata frame and no binary frame
UncachedReadIsResourceNotFound ==
    (exch.transport # None /\ exch.done /\ IsRead(exch.request) /\ ~exch.cached
       /\ exch.request.id # NoId)
        => /\ Len(HandlerFrames) = 1
           /\ IsResponse(HandlerFrames[1])
           /\ HandlerFrames[1].frame.msg.kind = "error"
           /\ HandlerFrames[1].frame.msg.code = -32001

\* C22: no JSON-RPC result that a handler sent for a tools/call with an id
\* carries the outcome of a tool that failed: a failed tool is answered with
\* an error
ToolFailureIsJsonRpcError ==
    \A i \in 1..Len(Responses) :
        LET msg == Responses[i].frame.msg
        IN  (msg.id # NoId /\ msg.kind = "result" /\ msg.body.tag = "content")
                => msg.body.text.success

\* C23: text that is not JSON got one frame from its handler, the error
\* -32700 with id null, and left the connection open; and on a connection
\* that has received such text, every handled request with an id, of a
\* method that is no notification, got one response with its id
ParseErrorAnsweredAndLoopGoesOn ==
    /\ (exch.request = NotJson /\ exch.done)
         => /\ ws_open
            /\ Len(HandlerFrames) = 1
            /\ IsResponse(HandlerFrames[1])
            /\ HandlerFrames[1].frame.msg.kind = "error"
            /\ HandlerFrames[1].frame.msg.code = -32700
            /\ HandlerFrames[1].frame.msg.id = NoId
    /\ (garbled /\ exch.transport = "ws" /\ exch.done /\ exch.request.id # NoId
           /\ ~IsNotification(exch.request.method))
         => /\ Len(Responses) = 1
            /\ Responses[1].frame.msg.id = exch.request.id

\* the part about the text itself: it got the one error -32700 and the
\* connection is still open
ParseErrorAnswered ==
    (exch.request = NotJson /\ exch.done)
        => /\ ws_open
           /\ Len(HandlerFrames) = 1
           /\ HandlerFrames[1].frame.msg.code = ParseError

(***************************************************************************)
(* Captures and reads of the URIs they returned.                           *)
(***************************************************************************)
\* a client calls capture_screen(monitor, format, quality)
CaptureScreenShot ==
    /\ calls < MaxCaptures
    /\ \E monitor \in Monitors, shot \in Shots, timestamp \in {clock, clock + 1} :
         \E capture_result \in CaptureResults(monitor) :
            LET out == capture_screen(_image_cache, monitor, shot, capture_result, timestamp)
            IN  IF out.ret.success
                THEN /\ _image_cache' = out.cache
                     /\ clock' = timestamp
                     /\ calls' = calls + 1
                     /\ receipts' = Append(receipts,
                                       [uri |-> out.ret.resource_uri,
                                        bytes |-> b64decode(capture_result.image_data),
                                        mime_type |-> out.ret.mime_type,
                                        metadata |-> out.ret.metadata])
                     /\ lastRead' = NoRead
                ELSE UNCHANGED <<_image_cache, clock, calls, receipts, lastRead>>
    /\ UNCHANGED <<streams, requested, lastRet, seq, lastIns, evictLog, bulkDone, exch, ws_open,
                   bcast, broadcasts, garbled, notRpc>>

ReadRequest(uri) ==
    [method |-> "resources/read", id |-> <<7>>, params |-> [NoParams EXCEPT !.uri = uri]]

\* what a client gets from resources/read of uri on each transport
SseRead(cache, uri) ==
    LET r == SseProcessMcpRequest(ReadRequest(uri), cache, NoTool)
    IN  IF r.kind = "result"
        THEN [transport |-> "sse", uri |-> uri, found |-> TRUE,
              bytes |-> b64decode(r.body.blob), mimeType |-> r.body.mimeType,
              metadata |-> [error |-> None]]
        ELSE [NoRead EXCEPT !.transport = "sse", !.uri = uri]

WsRead(cache, uri) ==
    LET o == WsProcessMcpRequest(ReadRequest(uri), cache, NoTool)
    IN  IF o.response.kind = "result"
        THEN [transport |-> "ws", uri |-> uri, found |-> TRUE,
              bytes |-> o.frames[2].bytes, mimeType |-> o.frames[1].msg.mimeType,
              metadata |-> o.frames[1].msg.metadata]
        ELSE [NoRead EXCEPT !.transport = "ws", !.uri = uri]

\* a client reads a URI that a capture returned
ReadResource ==
    /\ \E i \in 1..Len(receipts) :
         \/ lastRead' = SseRead(_image_cache, receipts[i].uri)
         \/ lastRead' = WsRead(_image_cache, receipts[i].uri)
    /\ UNCHANGED <<varsCache, receipts, exch, ws_open, bcast, broadcasts, garbled, notRpc>>

NextRead ==
    \/ CaptureScreenShot
    \/ ReadResource

SpecRead == InitCache /\ [][NextRead]_vars

\* C3: a resources/read of a URI that a capture returned, while the entry
\* is in the cache, finds it and returns the bytes and the MIME type of
\* that capture, and its metadata where the transport carries metadata
ReadReturnsWhatWasCaptured ==
    \A i \in 1..Len(receipts) :
        (lastRead.transport # None /\ lastRead.uri = receipts[i].uri
                                   /\ receipts[i].uri \in CacheKeys(_image_cache))
            => /\ lastRead.found
               /\ lastRead.bytes = receipts[i].bytes
               /\ lastRead.mimeType = receipts[i].mime_type
               /\ lastRead.transport = "ws" => lastRead.metadata = receipts[i].metadata

(***************************************************************************)
(* Streams and auto-push (mcp_server.py, mcp_sse_server.py,                *)
(* mcp_websocket_server.py).  A task is [transport, stream_id, pc, cancel, *)
(* info, uri]: pc is the await the coroutine is suspended at ("new" before *)
(* its first step), cancel is set by Task.cancel() until the task takes    *)
(* the CancelledError, info is its local stream_info and uri the URI it is *)
(* about to announce.                                                      *)
(***************************************************************************)
\* an id no stream ever had
GhostId == "s0"

\* ids a client may pass to the start calls and to the stop calls
StartArgs == DOMAIN streams \cup retired
StreamArgs == StartArgs \cup {GhostId}

\* a call binds its keyword arguments to the callee's parameters, and
\* raises TypeError for a keyword the callee does not have
Binds(keywords, params) == keywords \subseteq params

\* a capture_screen that took a quality keyword as well
CaptureScreenParamsWithQuality == {"monitor", "region", "format", "use_cache", "quality"}

\* ScreenCapture.capture_screen(self, monitor, region, format, use_cache)
CaptureScreenParams == {"monitor", "region", "format", "use_cache"}

\* the keywords of the auto-push tasks' capture_screen(monitor, quality=...)
AutoPushCaptureKeywords == {"quality"}

\* AdaptiveQualityController.__init__ and the keywords _auto_push_stream_frames
\* calls it with
AdaptiveQualityControllerParams ==
    {"target_fps", "min_quality", "max_quality", "adjustment_interval"}

AutoPushControllerKeywords ==
    {"target_fps", "min_quality", "max_quality", "adjustment_step"}

\* asyncio.create_task: the new task's first step is scheduled behind the
\* wake-up of every task whose cancel() was called before and has not run yet
\* (the event loop runs what is ready in the order it was scheduled)
NewTask(transport, stream_id) ==
    [transport |-> transport, stream_id |-> stream_id, pc |-> "new",
     cancel |-> FALSE, info |-> NoInfo, uri |-> NoUri, behind |-> {}]

Finished(task) == task.pc \in {"done", "error", "cancelled"}

\* Task.cancel(): nothing for a task that is done
Cancel(ts, t) == IF Finished(ts[t]) THEN ts ELSE [ts EXCEPT ![t].cancel = TRUE]

\* the tasks whose cancellation is scheduled and has not run
CancelPending(ts) == {t \in 1..Len(ts) : ts[t].cancel /\ ~Finished(ts[t])}

\* a start that registers a new task and leaves the registered one running
StartAutoPushNoCancel(reg, ts, stream_id) ==
    LET ts2 == Append(ts, [NewTask("sse", stream_id) EXCEPT !.behind = CancelPending(ts)])
    IN  [reg |-> With(reg, stream_id, Len(ts2)), tasks |-> ts2]


\* start_auto_push_stream(stream_id, fps) and start_ws_auto_push_stream:
\* cancel the task registered for the stream, create and register a new one
start_auto_push_stream(reg, ts, stream_id) ==
    LET ts1 == IF stream_id \in DOMAIN reg THEN Cancel(ts, reg[stream_id]) ELSE ts
        ts2 == Append(ts1, [NewTask("sse", stream_id) EXCEPT !.behind = CancelPending(ts1)])
    IN  [reg |-> With(reg, stream_id, Len(ts2)), tasks |-> ts2]

start_ws_auto_push_stream(reg, ts, stream_id) ==
    LET ts1 == IF stream_id \in DOMAIN reg THEN Cancel(ts, reg[stream_id]) ELSE ts
        ts2 == Append(ts1, [NewTask("ws", stream_id) EXCEPT !.behind = CancelPending(ts1)])
    IN  [reg |-> With(reg, stream_id, Len(ts2)), tasks |-> ts2]

\* a stop that raises for a stream that has no registered task
StopAutoPushUnguarded(reg, metrics, ts, stream_id) ==
    IF stream_id \in DOMAIN reg
    THEN [reg |-> Without(reg, stream_id), metrics |-> metrics \ {stream_id},
          tasks |-> Cancel(ts, reg[stream_id]), raised |-> FALSE]
    ELSE [reg |-> reg, metrics |-> metrics, tasks |-> ts, raised |-> TRUE]

\* stop_auto_push_stream(stream_id): [reg, metrics, tasks, raised]
stop_auto_push_stream(reg, metrics, ts, stream_id) ==
    IF stream_id \in DOMAIN reg
    THEN [reg |-> Without(reg, stream_id), metrics |-> metrics \ {stream_id},
          tasks |-> Cancel(ts, reg[stream_id]), raised |-> FALSE]
    ELSE [reg |-> reg, metrics |-> metrics, tasks |-> ts, raised |-> FALSE]

\* stop_ws_auto_push_stream(stream_id): [reg, tasks, raised]
stop_ws_auto_push_stream(reg, ts, stream_id) ==
    IF stream_id \in DOMAIN reg
    THEN [reg |-> Without(reg, stream_id), tasks |-> Cancel(ts, reg[stream_id]),
          raised |-> FALSE]
    ELSE [reg |-> reg, tasks |-> ts, raised |-> FALSE]

Call(op, stream_id, raised, again, second) ==
    [op |-> op, stream_id |-> stream_id, raised |-> raised, again |-> again,
     second |-> second]

\* GET /sse: a client connects and gets its queue
SseConnect ==
    /\ ~sse_connected
    /\ sse_connected' = TRUE
    /\ lastCall' = NoCall
    /\ UNCHANGED <<varsCache, varsRpc, varsHub, varsSkip, varsConfig,
                   gaming_adaptive_quality, tasks, _auto_push_streams,
                   _ws_auto_push_streams, _stream_metrics, sse_queue, stopping, retired,
                   grabs, returned, pushed, delivered, stopSeen, halted, varsBackend>>

(***************************************************************************)
(* The gaming configuration: enable_gaming_mode, use_gaming_preset and the  *)
(* preset loader.  An Optional[int] argument is <<>> for None and <<n>>     *)
(* for n.                                                                   *)
(***************************************************************************)
PerformanceModes == {"quality", "performance"}

\* GameStreamConfig(mode=mode) after __post_init__
GameStreamConfig(mode) ==
    [mode |-> mode,
     fps |-> IF mode = "quality" THEN 10 ELSE 60,
     quality |-> IF mode = "quality" THEN 95 ELSE 50,
     enable_frame_skip |-> mode # "quality",
     adaptive_quality |-> mode # "quality",
     max_skip_frames |-> 5,
     skip_threshold_ms |-> 50]

Given(arg) == arg # <<>>

\* max(a, b) and min(a, b)
Max2(a, b) == IF a >= b THEN a ELSE b
Min2(a, b) == IF a <= b THEN a ELSE b

\* the Settings after config.enable_gaming_mode = True and the assignments
\* of the gaming fields from a GameStreamConfig
Store(cfg, gc) ==
    [cfg EXCEPT !.enable_gaming_mode = TRUE,
                !.gaming_max_fps = gc.fps,
                !.gaming_quality = gc.quality,
                !.gaming_enable_frame_skip = gc.enable_frame_skip]

\* enable_gaming_mode(mode, fps, quality, enable_frame_skip): [config, error]
enable_gaming_mode(cfg, mode, fps, quality, enable_frame_skip) ==
    IF mode \notin PerformanceModes
    THEN [config |-> cfg, error |-> "Invalid mode"]
    ELSE IF Given(fps) /\ (fps[1] < 1 \/ fps[1] > 120)
    THEN [config |-> cfg, error |-> "FPS must be between 1 and 120"]
    ELSE IF Given(quality) /\ (quality[1] < 1 \/ quality[1] > 100)
    THEN [config |-> cfg, error |-> "Quality must be between 1 and 100"]
    ELSE LET gc == GameStreamConfig(mode)
             gc1 == [gc EXCEPT !.fps = IF Given(fps) THEN fps[1] ELSE @,
                               !.quality = IF Given(quality) THEN quality[1] ELSE @,
                               !.enable_frame_skip = enable_frame_skip]
         IN  [config |-> Store(cfg, gc1), error |-> None]

\* the presets of gaming_presets.json a client may name, and the mode of each
PresetNames == {"competitive_gaming"}
PresetMode == "performance"

\* PresetLoader.get_config_from_preset(preset_name, **overrides): the
\* overrides are written into the preset's stored dict, and the stored fps
\* and quality into the GameStreamConfig: [found, stored, config]
get_config_from_preset(stored, preset_name, overrides, adaptive_quality) ==
    IF preset_name \notin PresetNames
    THEN [found |-> FALSE, stored |-> stored, config |-> NoConfig]
    ELSE LET config_data == [k \in {"fps", "quality"} |->
                                IF Given(overrides[k]) THEN overrides[k] ELSE stored[k]]
             gc == GameStreamConfig(PresetMode)
         IN  [found |-> TRUE,
              stored |-> config_data,
              config |-> [gc EXCEPT !.fps = IF Given(config_data.fps)
                                            THEN config_data.fps[1] ELSE @,
                                    !.quality = IF Given(config_data.quality)
                                                THEN config_data.quality[1] ELSE @,
                                    !.adaptive_quality = adaptive_quality]]

\* use_gaming_preset(preset_name, fps, quality), where the preset's
\* "adaptive_quality" is adaptive_quality: [config, adaptive, stored, error]
use_gaming_preset(cfg, adaptive, stored, preset_name, fps, quality, adaptive_quality) ==
    LET o == get_config_from_preset(stored, preset_name,
                                    [fps |-> fps, quality |-> quality], adaptive_quality)
    IN  IF ~o.found
        THEN [config |-> cfg, adaptive |-> adaptive, stored |-> stored,
              error |-> "Preset not found"]
        ELSE [config |-> Store(cfg, o.config), adaptive |-> o.config.adaptive_quality,
              stored |-> o.stored, error |-> None]

\* the record of a call that passed an fps or a quality; a call that passed
\* neither leaves the record alone
Setting(op, fps, quality, refused, changed) ==
    IF Given(fps) \/ Given(quality)
    THEN [op |-> op, fps |-> fps, quality |-> quality, refused |-> refused,
          changed |-> changed]
    ELSE lastTool

\* a use_gaming_preset call with its arguments drawn from the given sets;
\* the call counter is left to the caller
UseGamingPresetWith(names, fpss, qualities) ==
    /\ \E preset_name \in names, fps \in fpss, quality \in qualities,
          adaptive_quality \in BOOLEAN :
         LET o == use_gaming_preset(server_config, gaming_adaptive_quality, preset_config,
                                    preset_name, fps, quality, adaptive_quality)
         IN  /\ server_config' = o.config
             /\ gaming_adaptive_quality' = o.adaptive
             /\ preset_config' = o.stored
             /\ lastTool' = Setting("use_gaming_preset", fps, quality, o.error # None,
                                    <<o.config, o.stored>> # <<server_config, preset_config>>)
    /\ lastCall' = NoCall
    /\ UNCHANGED <<varsCache, varsRpc, varsHub, skipState, push_fps, tasks, _auto_push_streams,
                   _ws_auto_push_streams, _stream_metrics, sse_connected, sse_queue,
                   stopping, retired, grabs, returned, pushed, delivered,
                   stopSeen, halted, varsBackend>>

\* use_gaming_preset(preset_name) with no override
UseGamingPreset ==
    /\ UseGamingPresetWith(PresetNames, {<<>>}, {<<>>})
    /\ UNCHANGED iterations

\* the start_auto_push_stream tool's default fps
DefaultPushFps == 5

\* the start_auto_push_stream tool with its fps drawn from the given set: the
\* stream must exist, and interval = 1.0 / fps raises for fps = 0 before a
\* task is created; the call counter is left to the caller.  max is how many
\* tasks are created at most
StartAutoPushUpTo(max, fpss) ==
    /\ Len(tasks) < max
    /\ \E stream_id \in StartArgs, fps \in fpss :
         /\ lastCall' = Call("start_auto_push_stream", stream_id, FALSE, FALSE, FALSE)
         /\ IF GetStreamInfo(streams, stream_id).found /\ fps # 0
            THEN LET o == start_auto_push_stream(_auto_push_streams, tasks, stream_id)
                 IN  /\ _auto_push_streams' = o.reg
                     /\ tasks' = o.tasks
                     /\ pushed' = [pushed EXCEPT !.sse = @ \cup {stream_id}]
                     /\ push_fps' = With(push_fps, stream_id, fps)
            ELSE UNCHANGED <<_auto_push_streams, tasks, pushed, push_fps>>
         /\ lastTool' = IF fps = DefaultPushFps THEN lastTool
                        ELSE Setting("start_auto_push_stream", <<fps>>, <<>>,
                                     ~GetStreamInfo(streams, stream_id).found \/ fps = 0,
                                     GetStreamInfo(streams, stream_id).found /\ fps # 0)
    /\ UNCHANGED <<varsCache, varsRpc, varsHub, skipState, server_config, preset_config,
                   gaming_adaptive_quality, _ws_auto_push_streams,
                   _stream_metrics, sse_connected, sse_queue, stopping, retired, grabs,
                   returned, delivered, stopSeen, halted, varsBackend>>

StartAutoPushToolWith(fpss) == StartAutoPushUpTo(MaxTasks, fpss)

\* start_auto_push_stream(stream_id): the fps is the default
StartAutoPushTool ==
    /\ StartAutoPushToolWith({DefaultPushFps})
    /\ UNCHANGED iterations

\* start_ws_auto_push_stream(stream_id, fps)
StartWsAutoPush ==
    /\ Len(tasks) < MaxTasks
    /\ \E stream_id \in StartArgs :
         LET o == start_ws_auto_push_stream(_ws_auto_push_streams, tasks, stream_id)
         IN  /\ _ws_auto_push_streams' = o.reg
             /\ tasks' = o.tasks
             /\ pushed' = [pushed EXCEPT !.ws = @ \cup {stream_id}]
             /\ lastCall' = Call("start_ws_auto_push_stream", stream_id, FALSE, FALSE, FALSE)
    /\ UNCHANGED <<varsCache, varsRpc, varsHub, varsSkip, varsConfig,
                   gaming_adaptive_quality, _auto_push_streams,
                   _stream_metrics, sse_connected, sse_queue, stopping, retired, grabs,
                   returned, delivered, stopSeen, halted, varsBackend>>

\* the stop_auto_push_stream tool
StopAutoPushTool ==
    /\ \E stream_id \in StreamArgs :
         LET o == stop_auto_push_stream(_auto_push_streams, _stream_metrics, tasks, stream_id)
         IN  /\ _auto_push_streams' = o.reg
             /\ _stream_metrics' = o.metrics
             /\ tasks' = o.tasks
             /\ pushed' = [pushed EXCEPT !.sse = @ \ {stream_id}]
             /\ halted' = [halted EXCEPT !.sse = @ \cup (pushed.sse \cap {stream_id})]
             /\ lastCall' = Call("stop_auto_push_stream", stream_id, o.raised,
                                 stream_id \notin pushed.sse, stream_id \in halted.sse)
    /\ UNCHANGED <<varsCache, varsRpc, varsHub, varsSkip, varsConfig,
                   gaming_adaptive_quality, _ws_auto_push_streams,
                   sse_connected, sse_queue, stopping, retired, grabs, returned,
                   delivered, stopSeen, varsBackend>>

\* stop_ws_auto_push_stream(stream_id)
StopWsAutoPush ==
    /\ \E stream_id \in StreamArgs :
         LET o == stop_ws_auto_push_stream(_ws_auto_push_streams, tasks, stream_id)
         IN  /\ _ws_auto_push_streams' = o.reg
             /\ tasks' = o.tasks
             /\ pushed' = [pushed EXCEPT !.ws = @ \ {stream_id}]
             /\ halted' = [halted EXCEPT !.ws = @ \cup (pushed.ws \cap {stream_id})]
             /\ lastCall' = Call("stop_ws_auto_push_stream", stream_id, o.raised,
                                 stream_id \notin pushed.ws, stream_id \in halted.ws)
    /\ UNCHANGED <<varsCache, varsRpc, varsHub, varsSkip, varsConfig,
                   gaming_adaptive_quality, _auto_push_streams,
                   _stream_metrics, sse_connected, sse_queue, stopping, retired, grabs,
                   returned, delivered, stopSeen, varsBackend>>

\* the stop_stream tool up to its await of stream_manager.stop_stream: it
\* stops the SSE auto-push; an exception makes the tool return "Error: ..."
StopStreamBegin ==
    /\ \E stream_id \in StreamArgs \ stopping :
         LET o == stop_auto_push_stream(_auto_push_streams, _stream_metrics, tasks, stream_id)
         IN  /\ _auto_push_streams' = o.reg
             /\ _stream_metrics' = o.metrics
             /\ tasks' = o.tasks
             /\ pushed' = [pushed EXCEPT !.sse = @ \ {stream_id}]
             /\ halted' = [halted EXCEPT !.sse = @ \cup (pushed.sse \cap {stream_id})]
             /\ stopping' = IF o.raised THEN stopping ELSE stopping \cup {stream_id}
             /\ lastCall' = Call("stop_stream", stream_id, o.raised,
                                 stream_id \notin pushed.sse, stream_id \in returned)
    /\ UNCHANGED <<varsCache, varsRpc, varsHub, varsSkip, varsConfig,
                   gaming_adaptive_quality, _ws_auto_push_streams,
                   sse_connected, sse_queue, retired, grabs, returned, delivered, stopSeen,
                   varsBackend>>

\* stream_manager.stop_stream removes the session, and stop_stream returns
StopStreamEnd ==
    /\ \E stream_id \in stopping :
         /\ streams' = Without(streams, stream_id)
         /\ retired' = retired \cup (DOMAIN streams \cap {stream_id})
         /\ stopping' = stopping \ {stream_id}
         /\ returned' = returned \cup {stream_id}
         /\ stopSeen' = IF \E t \in 1..Len(tasks) :
                              tasks[t].stream_id = stream_id /\ ~Finished(tasks[t])
                        THEN stopSeen \cup {stream_id} ELSE stopSeen
    /\ lastCall' = NoCall
    /\ UNCHANGED <<_image_cache, clock, requested, lastRet, seq, lastIns, evictLog, calls, bulkDone,
                   varsRpc, varsHub, varsSkip, varsConfig,
                   gaming_adaptive_quality, tasks, _auto_push_streams,
                   _ws_auto_push_streams, _stream_metrics, sse_connected, sse_queue,
                   grabs, pushed, delivered, halted, varsBackend>>

\* the notification _auto_push_stream_frames broadcasts, and the record of a
\* delivery: late when stop_stream had returned for the stream
Updated(stream_id, uri) ==
    [method |-> "notifications/resources/updated", uri |-> uri, stream_id |-> stream_id]

Delivery(transport, stream_id, uri) ==
    [transport |-> transport, stream_id |-> stream_id, late |-> stream_id \in returned,
     cached |-> uri \in CacheKeys(_image_cache)]

\* one step of the coroutine _auto_push_stream_frames (transport "sse") or
\* _ws_auto_push_stream_frames (transport "ws"), from the await it is
\* suspended at to the next one.  skip is what should_skip_frame answers;
\* capture_result and timestamp are what the grab and datetime.now() return
AutoPushStep(t, skip, capture_result, timestamp) ==
    LET task == tasks[t]
        sid == task.stream_id
        sse == task.transport = "sse"
        si == GetStreamInfo(streams, sid)
        at(pc) == [tasks EXCEPT ![t].pc = pc, ![t].cancel = FALSE]
        badController == gaming_adaptive_quality
                         /\ ~Binds(AutoPushControllerKeywords, AdaptiveQualityControllerParams)
        badCapture == ~Binds(AutoPushCaptureKeywords, CaptureScreenParams)
    IN  IF task.cancel
        THEN \* CancelledError: a task that never ran is dropped, a running one
             \* takes the except branch
             /\ tasks' = at("cancelled")
             /\ _stream_metrics' = IF sse /\ task.pc # "new"
                                   THEN _stream_metrics \ {sid} ELSE _stream_metrics
             /\ UNCHANGED <<_image_cache, clock, sse_queue, delivered, grabs>>
        ELSE IF task.pc = "new"
        THEN \* up to the first await; the SSE coroutine registers its metrics
             \* and builds the quality controller before its try block
             /\ tasks' = IF sse /\ badController THEN at("error") ELSE at("info")
             /\ _stream_metrics' = IF sse THEN _stream_metrics \cup {sid} ELSE _stream_metrics
             /\ UNCHANGED <<_image_cache, clock, sse_queue, delivered, grabs>>
        ELSE IF task.pc = "info"
        THEN \* stream_manager.get_stream_info answered
             /\ tasks' = IF ~si.found THEN at("done")
                         ELSE IF sse /\ skip THEN tasks
                         ELSE IF badCapture THEN at("error")
                         ELSE [at("capture") EXCEPT ![t].info = si.info]
             /\ _stream_metrics' = IF sse /\ si.found /\ ~skip /\ badCapture
                                   THEN _stream_metrics \ {sid} ELSE _stream_metrics
             /\ UNCHANGED <<_image_cache, clock, sse_queue, delivered, grabs>>
        ELSE IF task.pc = "capture"
        THEN \* screen_capture.capture_screen answered
             IF capture_result.success
             THEN LET metadata == [timestamp |-> timestamp, stream_id |-> sid,
                                   monitor |-> InfoGet(task.info, "monitor", 0),
                                   width |-> None, height |-> None]
                      mime_type == "image/" \o InfoGet(task.info, "format", "jpeg")
                  IN  /\ _image_cache' = IF sse
                                         THEN _add_to_cache(_image_cache,
                                                  capture_result.image_data, mime_type, metadata)
                                         ELSE _image_cache
                      /\ clock' = timestamp
                      /\ grabs' = grabs + 1
                      /\ tasks' = [at("publish") EXCEPT
                                      ![t].uri = IF sse THEN ResourceUri(metadata)
                                                 ELSE [scheme |-> "stream://", id |-> <<sid>>]]
                      /\ UNCHANGED <<_stream_metrics, sse_queue, delivered>>
             ELSE /\ tasks' = at("info")
                  /\ UNCHANGED <<_image_cache, clock, _stream_metrics, sse_queue,
                                 delivered, grabs>>
        ELSE \* the broadcast: a put on every SSE queue, or the two frames of
             \* the binary resource to every WebSocket client
             /\ tasks' = [at("info") EXCEPT ![t].uri = NoUri]
             /\ sse_queue' = IF sse /\ sse_connected
                             THEN Append(sse_queue, Updated(sid, task.uri)) ELSE sse_queue
             /\ delivered' = IF (sse /\ sse_connected) \/ (~sse /\ ws_open)
                             THEN delivered \cup {Delivery(task.transport, sid, task.uri)}
                             ELSE delivered
             /\ UNCHANGED <<_image_cache, clock, _stream_metrics, grabs>>

\* what the environment can answer a task at the await it is suspended at
SkipAnswers(task) ==
    IF task.pc = "info" /\ task.transport = "sse" /\ ~task.cancel
    THEN BOOLEAN ELSE {FALSE}

GrabAnswers(task) ==
    IF task.pc = "capture" /\ ~task.cancel
    THEN CaptureResults(InfoGet(task.info, "monitor", 0)) ELSE {CaptureFailed}

ClockAnswers(task) ==
    IF task.pc = "capture" /\ ~task.cancel THEN {clock, clock + 1} ELSE {clock}

\* the event loop runs an auto-push task
AutoPushTask ==
    /\ \E t \in 1..Len(tasks) :
         /\ ~Finished(tasks[t])
         /\ \A u \in tasks[t].behind : Finished(tasks[u])
         /\ tasks[t].pc = "capture" => grabs < MaxGrabs
         /\ \E skip \in SkipAnswers(tasks[t]), capture_result \in GrabAnswers(tasks[t]),
               timestamp \in ClockAnswers(tasks[t]) :
                AutoPushStep(t, skip, capture_result, timestamp)
    /\ lastCall' = NoCall
    /\ UNCHANGED <<streams, requested, lastRet, seq, lastIns, evictLog, calls, bulkDone,
                   varsRpc, varsHub, varsSkip, varsConfig,
                   gaming_adaptive_quality, _auto_push_streams, _ws_auto_push_streams,
                   sse_connected, stopping, retired, returned, pushed,
                   stopSeen, halted, varsBackend>>

NextStream ==
    \/ CreateStream
    \/ SseConnect
    \/ WsConnect
    \/ UseGamingPreset
    \/ StartAutoPushTool
    \/ StartWsAutoPush
    \/ StopAutoPushTool
    \/ StopWsAutoPush
    \/ StopStreamBegin
    \/ StopStreamEnd
    \/ AutoPushTask

SpecStream == InitCache /\ [][NextStream]_vars

\* the event loop runs every task that is ready
SpecStreamFair == SpecStream /\ WF_vars(AutoPushTask)

StopOps == {"stop_stream", "stop_auto_push_stream", "stop_ws_auto_push_stream"}

\* C8: a stop of a stream that is already stopped, or never had an
\* auto-push task, raises no error and changes neither the task registries
\* nor the metrics registry nor the resource cache
StopIsIdempotent ==
    [][(lastCall'.op \in StopOps /\ lastCall'.again)
          => /\ ~lastCall'.raised
             /\ UNCHANGED <<_auto_push_streams, _ws_auto_push_streams,
                            _stream_metrics, _image_cache>>]_vars

\* a stream whose task a stop removed has been stopped a second time
StoppedTwice ==
    lastCall.op \in StopOps /\ lastCall.again /\ lastCall.second /\ ~lastCall.raised

\* C9: when a stream exists, an SSE client is connected and auto-push is
\* started for the stream, the client eventually gets a resources/updated
\* notification of the stream (unless the stream or its auto-push is stopped)
AutoPushEventuallyNotifies ==
    \A s \in StreamIds :
        (s \in DOMAIN streams /\ sse_connected /\ s \in pushed.sse)
            ~> \/ \E d \in delivered : d.transport = "sse" /\ d.stream_id = s
               \/ s \notin DOMAIN streams
               \/ s \notin pushed.sse

\* the step has put a stream_stopped notification of the stream on the SSE
\* client's queue, or has delivered something of the stream to the WebSocket
\* client
NoticeOfStop(transport, stream_id) ==
    IF transport = "sse"
    THEN \E i \in (Len(sse_queue) + 1)..Len(sse_queue') :
             /\ sse_queue'[i].method = "notifications/stream_stopped"
             /\ sse_queue'[i].stream_id = stream_id
    ELSE \E d \in delivered' \ delivered :
             d.transport = "ws" /\ d.stream_id = stream_id

\* C30: when an auto-push task ends on an error while a subscriber of its
\* transport is connected, the step that ends it sends the subscriber a
\* stream_stopped notification of the stream
ProducerErrorIsNotified ==
    [][\A t \in 1..Len(tasks) :
          (/\ tasks[t].pc # "error"
           /\ tasks'[t].pc = "error"
           /\ IF tasks[t].transport = "sse" THEN sse_connected ELSE ws_open)
              => NoticeOfStop(tasks[t].transport, tasks[t].stream_id)]_vars

\* the SSE auto-push of a stream started, stopped and started again
StartAutoPushAgain ==
    /\ StartAutoPushUpTo(MaxRestartTasks, {DefaultPushFps})
    /\ UNCHANGED iterations

NextRestart ==
    \/ CreateStream
    \/ UseGamingPreset
    \/ SseConnect
    \/ StartAutoPushAgain
    \/ StopAutoPushTool
    \/ AutoPushTask

SpecRestart == InitCache /\ [][NextRestart]_vars

\* a task that is neither done nor cancelled
Active(task) == ~Finished(task) /\ ~task.cancel

\* C37: no stream has two active auto-push tasks of one transport; a task
\* whose cancel() was called does nothing but end, and publishes nothing;
\* and an active SSE task that has registered its metrics keeps its entry in
\* _stream_metrics, whatever the clean-up of the task it replaced does
OneProducerPerStream ==
    [][/\ \A t, v \in 1..Len(tasks') :
            (/\ t # v
             /\ tasks'[t].transport = tasks'[v].transport
             /\ tasks'[t].stream_id = tasks'[v].stream_id
             /\ Active(tasks'[t])) => ~Active(tasks'[v])
       /\ \A t \in 1..Len(tasks) :
            (tasks[t].cancel /\ ~Finished(tasks[t]) /\ tasks'[t] # tasks[t])
               => /\ tasks'[t].pc = "cancelled"
                  /\ delivered' = delivered
                  /\ sse_queue' = sse_queue
       /\ \A t \in 1..Len(tasks') :
            (/\ tasks'[t].transport = "sse"
             /\ Active(tasks'[t])
             /\ tasks'[t].pc # "new") => tasks'[t].stream_id \in _stream_metrics']_vars

\* a stream's SSE task was cancelled by a second start and has ended, and
\* the task that replaced it is in its loop with its metrics registered
SuccessorRunsAfterCancel ==
    \E t, v \in 1..Len(tasks) :
        /\ t < v
        /\ tasks[t].transport = "sse" /\ tasks[v].transport = "sse"
        /\ tasks[t].stream_id = tasks[v].stream_id
        /\ tasks[t].pc = "cancelled"
        /\ t \in tasks[v].behind
        /\ tasks[v].pc = "info"
        /\ tasks[v].stream_id \in _stream_metrics

\* C38: _stream_metrics and _auto_push_streams hold an entry for a stream only
\* while an SSE auto-push task of the stream is running
RegistriesDescribeLiveProducers ==
    /\ \A s \in _stream_metrics :
          \E t \in 1..Len(tasks) :
              /\ tasks[t].transport = "sse" /\ tasks[t].stream_id = s
              /\ ~Finished(tasks[t])
    /\ \A s \in DOMAIN _auto_push_streams : ~Finished(tasks[_auto_push_streams[s]])

\* C34: a capture that fails in a cycle of an auto-push task does not end
\* the task: a task that is in its loop does not go to its error end
CaptureFailureIsNotFatal ==
    [][\A t \in 1..Len(tasks) :
          tasks[t].pc \in {"info", "capture", "publish"} => tasks'[t].pc # "error"]_vars

(***************************************************************************)
(* The frame skipper and the gaming WebSocket endpoint that drives it.     *)
(* Time is in whole milliseconds.                                          *)
(***************************************************************************)
\* 1.0 / target_fps in milliseconds, rounded up: for a whole number e of
\* milliseconds, e < 1000 / fps + t exactly when e < ceil(1000 / fps) + t
FrameInterval(target_fps) == (1000 + target_fps - 1) \div target_fps

\* FrameSkipper.__init__
FrameSkipper(target_fps, max_skip, skip_threshold_ms, current_time) ==
    [target_fps |-> target_fps,
     frame_interval |-> FrameInterval(target_fps),
     max_skip |-> max_skip,
     skip_threshold_ms |-> skip_threshold_ms,
     last_frame_time |-> current_time,
     consecutive_skips |-> 0]

\* should_skip_frame without the max_skip test
ShouldSkipFrameUncapped(self, current_time) ==
    LET elapsed == current_time - self.last_frame_time
    IN  IF elapsed < self.frame_interval + self.skip_threshold_ms
        THEN [self |-> [self EXCEPT !.consecutive_skips = 0], skip |-> FALSE]
        ELSE [self |-> [self EXCEPT !.consecutive_skips = @ + 1], skip |-> TRUE]

\* FrameSkipper.should_skip_frame: the skipper afterwards and the answer
should_skip_frame(self, current_time) ==
    LET elapsed == current_time - self.last_frame_time
    IN  IF elapsed < self.frame_interval + self.skip_threshold_ms
        THEN [self |-> [self EXCEPT !.consecutive_skips = 0], skip |-> FALSE]
        ELSE IF self.consecutive_skips < self.max_skip
        THEN [self |-> [self EXCEPT !.consecutive_skips = @ + 1], skip |-> TRUE]
        ELSE [self |-> [self EXCEPT !.consecutive_skips = 0], skip |-> FALSE]

\* FrameSkipper.mark_frame_processed
mark_frame_processed(self, current_time) ==
    [self EXCEPT !.last_frame_time = current_time, !.consecutive_skips = 0]

\* FrameMetrics(): the counters of a new metrics object
FrameMetrics == [total_frames |-> 0, dropped_frames |-> 0, skipped_frames |-> 0]

\* an add_frame that counts a dropped frame as skipped as well
AddFrameDroppedIsSkipped(self, dropped, skipped) ==
    [total_frames |-> self.total_frames + 1,
     dropped_frames |-> self.dropped_frames + (IF dropped THEN 1 ELSE 0),
     skipped_frames |-> self.skipped_frames + (IF skipped \/ dropped THEN 1 ELSE 0)]

\* FrameMetrics.add_frame(capture_ms, encode_ms, network_ms, dropped, skipped):
\* the counters afterwards
add_frame(self, dropped, skipped) ==
    [total_frames |-> self.total_frames + 1,
     dropped_frames |-> self.dropped_frames + (IF dropped THEN 1 ELSE 0),
     skipped_frames |-> self.skipped_frames + (IF skipped THEN 1 ELSE 0)]

\* the endpoint calls metrics.add_frame(..., dropped=dropped, skipped=skipped)
Record(dropped, skipped) ==
    /\ game_metrics' = add_frame(game_metrics, dropped, skipped)
    /\ recorded' = [processed |-> recorded.processed
                                    + (IF ~dropped /\ ~skipped THEN 1 ELSE 0),
                    both |-> recorded.both + (IF dropped /\ skipped THEN 1 ELSE 0)]

\* what time.time() may have advanced by between two readings
Durations == {0, 70}

\* ScreenCapture._cache_ttl in milliseconds
_cache_ttl == 100

\* ScreenCapture._get_from_cache at current_time: the entry if it has not
\* expired, and the cache afterwards (an expired entry is deleted)
_get_from_cache(cache, current_time) ==
    IF cache # NoCapture /\ current_time - cache[1] < _cache_ttl
    THEN [cached |-> cache, cache |-> cache]
    ELSE [cached |-> NoCapture, cache |-> NoCapture]

\* ScreenCapture.capture_screen(monitor) called at current_time with use_cache
\* left at its default, when the grab takes took milliseconds and works or
\* not: the cache afterwards, success, the time the returned image was
\* grabbed at and whether it is the cached result
ScreenCapture_capture_screen(cache, current_time, took, works) ==
    LET got == _get_from_cache(cache, current_time)
    IN  IF got.cached # NoCapture
        THEN [cache |-> got.cache, success |-> TRUE, taken |-> got.cached[1],
              cached |-> TRUE]
        ELSE IF works
        THEN [cache |-> <<current_time + took>>, success |-> TRUE,
              taken |-> current_time + took, cached |-> FALSE]
        ELSE [cache |-> got.cache, success |-> FALSE, taken |-> -1, cached |-> FALSE]

\* a loop that does not sleep between two frames
SleepTimeNone(fps, elapsed) == 0

\* the endpoint's sleep_time = max(0, 1.0 / config.fps - elapsed), in
\* milliseconds: the loop goes on at the first whole millisecond at which
\* the sleep is over
sleep_time(fps, elapsed) == Max2(0, FrameInterval(fps) - elapsed)

GameCaptureOutcomes == {"success", "unsuccessful", "raised"}

\* a client connects: the endpoint accepts and waits for "start"
GameConnect ==
    /\ ~game_open
    /\ iterations < MaxIterations
    /\ game_open' = TRUE
    /\ streaming' = FALSE
    /\ game_config' = NoConfig
    /\ skipper' = NoSkipper
    /\ iterations' = iterations + 1
    /\ skipRun' = 0
    /\ lastSkip' = NoSkip
    /\ dry' = 0
    /\ game_metrics' = NoMetrics
    /\ recorded' = NoneRecorded
    /\ game_frames' = NoFrames
    /\ game_sent' = NoSent
    /\ UNCHANGED <<now, frames_sent, _capture_cache, controller, probe, producer, notSkip>>

\* the configuration a "start" message makes: an unknown mode is
\* "performance", config.fps = min(config_data["fps"], 120) and
\* config.quality = config_data["quality"] where the keys are present
StartConfig(mode_name, fps, quality) ==
    LET gc == GameStreamConfig(IF mode_name \in PerformanceModes
                               THEN mode_name ELSE "performance")
    IN  [gc EXCEPT !.fps = IF Given(fps) THEN Min2(fps[1], 120) ELSE @,
                   !.quality = IF Given(quality) THEN quality[1] ELSE @]

\* the client's "start" message with its config drawn from the given sets: a
\* new configuration, new metrics and a new skipper.  FrameSkipper(target_fps
\* = 0) raises ZeroDivisionError, which ends the endpoint: the socket is closed
GameStartWith(modes, fpss, qualities, durations) ==
    /\ game_open
    /\ iterations < MaxIterations
    /\ \E mode \in modes, fps \in fpss, quality \in qualities, d \in durations :
         LET config == StartConfig(mode, fps, quality)
         IN  /\ now' = now + d
             /\ game_config' = config
             /\ IF config.fps = 0
                THEN /\ skipper' = skipper
                     /\ streaming' = streaming
                     /\ game_open' = FALSE
                     /\ game_sent' = game_sent
                ELSE /\ skipper' = FrameSkipper(config.fps,
                                                IF config.enable_frame_skip
                                                THEN config.max_skip_frames ELSE 0,
                                                config.skip_threshold_ms, now + d)
                     /\ streaming' = TRUE
                     /\ game_open' = TRUE
                     /\ game_sent' = [game_sent EXCEPT !.started = TRUE]
             /\ lastTool' = Setting("start", fps, quality, config.fps = 0, TRUE)
    /\ iterations' = iterations + 1
    /\ skipRun' = 0
    /\ lastSkip' = NoSkip
    /\ dry' = 0
    /\ game_metrics' = FrameMetrics
    /\ recorded' = NoneRecorded
    /\ UNCHANGED <<frames_sent,
                   _capture_cache, game_frames, controller, probe, producer, varsCache,
                   varsRpc, varsHub,
                   varsStream, server_config, preset_config, push_fps, varsBackend>>

\* a "start" message whose config names a mode only
GameStart == GameStartWith(PerformanceModes, {<<>>}, {<<>>}, Durations)

\* one pass of the endpoint's loop with no message from the client: the frame
\* is skipped, or captured and sent
GameFrame ==
    /\ game_open /\ streaming
    /\ iterations < MaxIterations
    /\ iterations' = iterations + 1
    /\ \E d \in Durations, busy \in Durations,
          outcome \in GameCaptureOutcomes, send_ok \in BOOLEAN :
         LET asked == game_config.enable_frame_skip
             frame_start == now + d
             ans == should_skip_frame(skipper, frame_start)
             shot == ScreenCapture_capture_screen(_capture_cache, frame_start,
                                                 busy, outcome = "success")
             done == frame_start + busy
         IN  /\ IF asked
                THEN /\ lastSkip' = [called |-> TRUE, before |-> skipRun,
                                     answer |-> ans.skip]
                     /\ skipRun' = IF ans.skip THEN skipRun + 1 ELSE 0
                ELSE UNCHANGED <<lastSkip, skipRun>>
             /\ IF asked /\ ans.skip
                THEN \* metrics.add_frame(skipped=True); continue
                     /\ skipper' = ans.self
                     /\ now' = frame_start
                     /\ dry' = dry + 1
                     /\ Record(FALSE, TRUE)
                     /\ UNCHANGED <<game_open, streaming, frames_sent, _capture_cache,
                                    game_frames, game_sent>>
                ELSE LET sk == IF asked THEN ans.self ELSE skipper
                     IN  IF outcome = "raised"
                         THEN \* the capture raised: an error message, continue
                              /\ skipper' = sk
                              /\ now' = done
                              /\ dry' = 0
                              /\ UNCHANGED <<game_open, streaming, frames_sent,
                                             _capture_cache, game_frames, game_sent,
                                             game_metrics, recorded>>
                         ELSE IF ~shot.success
                         THEN \* it was unsuccessful: add_frame(dropped=True), continue
                              /\ skipper' = sk
                              /\ now' = done
                              /\ dry' = 0
                              /\ _capture_cache' = shot.cache
                              /\ Record(TRUE, FALSE)
                              /\ UNCHANGED <<game_open, streaming, frames_sent,
                                             game_frames, game_sent>>
                         ELSE IF ~send_ok
                         THEN \* send_json raised: break, and the socket is closed
                              /\ skipper' = sk
                              /\ now' = done
                              /\ game_open' = FALSE
                              /\ dry' = 0
                              /\ _capture_cache' = shot.cache
                              /\ UNCHANGED <<streaming, frames_sent, game_frames, game_sent,
                                             game_metrics, recorded>>
                         ELSE \* the frame is sent and recorded, and the loop
                              \* sleeps for the rest of the interval
                              /\ skipper' = mark_frame_processed(sk, done)
                              /\ now' = done + sleep_time(game_config.fps, busy)
                              /\ frames_sent' = frames_sent + 1
                              /\ dry' = 0
                              /\ _capture_cache' = shot.cache
                              /\ game_frames' =
                                     [prev |-> game_frames.last,
                                      last |-> [start |-> frame_start,
                                                fps |-> game_config.fps,
                                                taken |-> shot.taken,
                                                cached |-> shot.cached]]
                              /\ Record(FALSE, FALSE)
                              /\ UNCHANGED <<game_open, streaming, game_sent>>
    /\ UNCHANGED <<game_config, controller, probe, producer, notSkip>>

\* a "stop" message that is answered with "stopped" and nothing else: the
\* loop goes on as it was
GameStopGoesOn ==
    /\ game_open
    /\ iterations < MaxIterations
    /\ iterations' = iterations + 1
    /\ game_sent' = [game_sent EXCEPT !.stopped = TRUE]
    /\ UNCHANGED <<now, game_open, streaming, game_config, skipper, frames_sent,
                   _capture_cache, game_frames, skipRun, lastSkip, dry,
                   game_metrics, recorded, controller, probe, producer, notSkip>>

\* the client's "stop" message: streaming = False, the endpoint answers
\* "stopped" and leaves the loop, and the socket is closed
GameStop ==
    /\ game_open
    /\ iterations < MaxIterations
    /\ iterations' = iterations + 1
    /\ streaming' = FALSE
    /\ game_open' = FALSE
    /\ game_sent' = [game_sent EXCEPT !.stopped = TRUE]
    /\ UNCHANGED <<now, game_config, skipper, frames_sent,
                   _capture_cache, game_frames, skipRun, lastSkip, dry,
                   game_metrics, recorded, controller, probe, producer, notSkip>>

NextSkip ==
    \/ GameConnect
    \/ GameStart
    \/ GameFrame
    \/ GameStop

SpecSkip == InitCache /\ [][NextSkip]_vars

\* C10: the skipper never answers true more than max_skip times in a row,
\* the call that follows max_skip answers of true in a row answers false,
\* consecutive_skips never exceeds max_skip, and in the producer loop no more
\* than max_skip passes in a row go by without a frame being sent while the
\* captures and the sends succeed
SkipsAtMostMaxSkipInARow ==
    game_config # NoConfig =>
        /\ skipper.consecutive_skips <= skipper.max_skip
        /\ skipRun <= skipper.max_skip
        /\ (lastSkip.called /\ lastSkip.before >= skipper.max_skip) => ~lastSkip.answer
        /\ dry <= skipper.max_skip

\* C12: the frames a stream's metrics have recorded are the processed, the
\* dropped and the skipped ones, and no frame was recorded as both dropped
\* and skipped
TotalIsProcessedDroppedSkipped ==
    game_metrics # NoMetrics =>
        /\ game_metrics.total_frames
             = recorded.processed + game_metrics.dropped_frames
               + game_metrics.skipped_frames
        /\ recorded.both = 0

\* a stream has recorded a processed, a dropped and a skipped frame
RecordedEveryKind ==
    /\ game_metrics # NoMetrics
    /\ recorded.processed > 0
    /\ game_metrics.dropped_frames > 0
    /\ game_metrics.skipped_frames > 0

\* after max_skip skips in a row, with max_skip positive, the skipper
\* answered false and the frame was captured and sent
ProcessedAfterMaxSkips ==
    /\ game_config # NoConfig
    /\ skipper.max_skip > 0
    /\ lastSkip.called /\ lastSkip.before = skipper.max_skip /\ ~lastSkip.answer
    /\ frames_sent > 0
    /\ skipper.last_frame_time = now
    /\ dry = 0

StreamFramesAreFreshCaptures ==
    /\ ~game_frames.last.cached
    /\ game_frames.prev # NoFrame => game_frames.prev.taken # game_frames.last.taken

(***************************************************************************)
(* The frame skipper on its own: a skipper is made and its two methods are *)
(* called in any order at any times.                                       *)
(***************************************************************************)
\* target_fps and max_skip a skipper is made with; 1000 / 10 is a whole
\* number of milliseconds, 1000 / 60 is not
SkipperFps == {10, 60}
SkipperMaxSkips == {0, 1, 2}

\* what time.time() may have advanced by between two calls
CallGaps == {0, 50, 67, 100}

\* the direct calls made so far are counted in iterations
NewSkipper ==
    /\ iterations < MaxSkipperCalls
    /\ \E target_fps \in SkipperFps, max_skip \in SkipperMaxSkips :
         /\ skipper' = FrameSkipper(target_fps, max_skip, 50, now)
         /\ probe' = [op |-> "__init__", time |-> now, before |-> skipper,
                      after |-> skipper', answer |-> FALSE]
    /\ iterations' = iterations + 1
    /\ UNCHANGED <<now, game_open, streaming, game_config, frames_sent,
                   _capture_cache, game_frames, game_sent, skipRun, lastSkip,
                   dry, game_metrics, recorded, controller, producer, notSkip>>

ShouldSkipFrame ==
    /\ skipper # NoSkipper
    /\ iterations < MaxSkipperCalls
    /\ \E gap \in CallGaps :
         LET ans == should_skip_frame(skipper, now + gap)
         IN  /\ now' = now + gap
             /\ skipper' = ans.self
             /\ probe' = [op |-> "should_skip_frame", time |-> now + gap,
                          before |-> skipper, after |-> ans.self, answer |-> ans.skip]
    /\ iterations' = iterations + 1
    /\ UNCHANGED <<game_open, streaming, game_config, frames_sent,
                   _capture_cache, game_frames, game_sent, skipRun, lastSkip, dry,
                   game_metrics, recorded, controller, producer, notSkip>>

MarkFrameProcessed ==
    /\ skipper # NoSkipper
    /\ iterations < MaxSkipperCalls
    /\ \E gap \in CallGaps :
         /\ now' = now + gap
         /\ skipper' = mark_frame_processed(skipper, now + gap)
         /\ probe' = [op |-> "mark_frame_processed", time |-> now + gap,
                      before |-> skipper, after |-> skipper', answer |-> FALSE]
    /\ iterations' = iterations + 1
    /\ UNCHANGED <<game_open, streaming, game_config, frames_sent,
                   _capture_cache, game_frames, game_sent, skipRun, lastSkip, dry,
                   game_metrics, recorded, controller, producer, notSkip>>

NextSkipper ==
    \/ NewSkipper
    \/ ShouldSkipFrame
    \/ MarkFrameProcessed

SpecSkipper == InitCache /\ [][NextSkipper]_vars

\* elapsed > 1 / target_fps + skip_threshold, in milliseconds and multiplied
\* through by target_fps
StrictlyLate(self, current_time) ==
    (current_time - self.last_frame_time) * self.target_fps
        > 1000 + self.skip_threshold_ms * self.target_fps

\* C11: should_skip_frame returns true exactly when the elapsed time is
\* strictly greater than 1 / target_fps + skip_threshold and consecutive_skips
\* is below max_skip; consecutive_skips is incremented exactly when it returns
\* true; mark_frame_processed sets last_frame_time to now and resets
\* consecutive_skips to 0
SkipsIffStrictlyLate ==
    /\ probe.op = "should_skip_frame" =>
         /\ probe.answer <=> /\ StrictlyLate(probe.before, probe.time)
                             /\ probe.before.consecutive_skips < probe.before.max_skip
         /\ probe.answer <=>
              probe.after.consecutive_skips = probe.before.consecutive_skips + 1
    /\ probe.op = "mark_frame_processed" =>
         /\ probe.after.last_frame_time = probe.time
         /\ probe.after.consecutive_skips = 0

(***************************************************************************)
(* The adaptive quality controller on its own (gaming_mode.py): a          *)
(* controller is made and its methods are called as the module's own test  *)
(* code calls them, in any order with any readings.                        *)
(***************************************************************************)
\* AdaptiveQualityController.__init__
AdaptiveQualityController(target_fps, min_quality, max_quality, adjustment_interval) ==
    [target_fps |-> target_fps, min_quality |-> min_quality, max_quality |-> max_quality,
     adjustment_interval |-> adjustment_interval,
     current_quality |-> (min_quality + max_quality) \div 2,
     frame_count |-> 0]

\* AdaptiveQualityController.should_adjust: the controller afterwards and the answer
should_adjust(self) ==
    [self |-> [self EXCEPT !.frame_count = @ + 1],
     answer |-> (self.frame_count + 1) % self.adjustment_interval = 0]

\* current_fps < target_fps * 0.85 and current_fps >= target_fps * 0.95, in
\* whole frames per second and multiplied through by 100
FpsLow(self, current_fps) == current_fps * 100 < self.target_fps * 85
FpsGood(self, current_fps) == current_fps * 100 >= self.target_fps * 95

\* an adjust that raises the quality whenever the FPS is good
AdjustIgnoringCpu(self, current_fps, cpu_usage) ==
    IF FpsLow(self, current_fps)
    THEN [self EXCEPT !.current_quality = Max2(self.min_quality, @ - 5)]
    ELSE IF FpsGood(self, current_fps)
    THEN [self EXCEPT !.current_quality = Min2(self.max_quality, @ + 2)]
    ELSE self

\* an adjust that lowers the quality without the floor
AdjustNoFloor(self, current_fps, cpu_usage) ==
    IF FpsLow(self, current_fps)
    THEN [self EXCEPT !.current_quality = @ - 5]
    ELSE IF FpsGood(self, current_fps) /\ cpu_usage < 60
    THEN [self EXCEPT !.current_quality = Min2(self.max_quality, @ + 2)]
    ELSE self

\* AdaptiveQualityController.adjust(current_fps, cpu_usage): the controller
\* afterwards (it returns the new current_quality)
adjust(self, current_fps, cpu_usage) ==
    IF FpsLow(self, current_fps)
    THEN [self EXCEPT !.current_quality = Max2(self.min_quality, @ - 5)]
    ELSE IF FpsGood(self, current_fps) /\ cpu_usage < 60
    THEN [self EXCEPT !.current_quality = Min2(self.max_quality, @ + 2)]
    ELSE self

\* (min_quality, max_quality) a controller is made with: those of the SSE
\* producer, a wider and a narrow range
QualityRanges == {<<30, 95>>, <<30, 90>>, <<55, 60>>}

\* adjustment_interval a controller is made with: the default and a short one
AdjustmentIntervals == {10, 2}

\* readings around the thresholds of a target of 60 frames per second
FpsReadings == {50, 51, 56, 57}
CpuReadings == {59, 60, 80, 81}

\* the direct calls made so far are counted in iterations
NewController ==
    /\ iterations < MaxControllerCalls
    /\ \E range \in QualityRanges, interval \in AdjustmentIntervals :
         /\ controller' = AdaptiveQualityController(60, range[1], range[2], interval)
         /\ probe' = [op |-> "__init__", before |-> controller, after |-> controller',
                      current_fps |-> 0, cpu_usage |-> 0, answer |-> FALSE]
    /\ iterations' = iterations + 1
    /\ UNCHANGED <<now, game_open, streaming, game_config, skipper, frames_sent,
                   _capture_cache, game_frames, game_sent, skipRun,
                   lastSkip, dry, game_metrics, recorded, producer, notSkip>>

ShouldAdjust ==
    /\ controller # NoController
    /\ iterations < MaxControllerCalls
    /\ LET ans == should_adjust(controller)
       IN  /\ controller' = ans.self
           /\ probe' = [op |-> "should_adjust", before |-> controller, after |-> ans.self,
                        current_fps |-> 0, cpu_usage |-> 0, answer |-> ans.answer]
    /\ iterations' = iterations + 1
    /\ UNCHANGED <<now, game_open, streaming, game_config, skipper, frames_sent,
                   _capture_cache, game_frames, game_sent, skipRun,
                   lastSkip, dry, game_metrics, recorded, producer, notSkip>>

Adjust ==
    /\ controller # NoController
    /\ iterations < MaxControllerCalls
    /\ \E current_fps \in FpsReadings, cpu_usage \in CpuReadings :
         /\ controller' = adjust(controller, current_fps, cpu_usage)
         /\ probe' = [op |-> "adjust", before |-> controller, after |-> controller',
                      current_fps |-> current_fps, cpu_usage |-> cpu_usage,
                      answer |-> FALSE]
    /\ iterations' = iterations + 1
    /\ UNCHANGED <<now, game_open, streaming, game_config, skipper, frames_sent,
                   _capture_cache, game_frames, game_sent, skipRun,
                   lastSkip, dry, game_metrics, recorded, producer, notSkip>>

\* _auto_push_stream_frames up to its loop: current_quality = 75, and with
\* config.gaming_adaptive_quality the controller, whose construction raises
\* TypeError for a keyword __init__ does not have
ProducerStart ==
    /\ producer.pc = "none"
    /\ LET bad == gaming_adaptive_quality
                  /\ ~Binds(AutoPushControllerKeywords, AdaptiveQualityControllerParams)
       IN  producer' = [pc |-> IF bad THEN "error" ELSE "loop",
                        adaptive |-> gaming_adaptive_quality,
                        total_frames |-> 0, dropped_frames |-> 0,
                        current_quality |-> 75, all_low |-> TRUE, used |-> {}]
    /\ controller' = IF gaming_adaptive_quality
                        /\ Binds(AutoPushControllerKeywords, AdaptiveQualityControllerParams)
                     THEN AdaptiveQualityController(60, 30, 95, 10)
                     ELSE controller
    /\ UNCHANGED <<now, game_open, streaming, game_config, skipper, frames_sent,
                   _capture_cache, game_frames, game_sent, iterations,
                   skipRun, lastSkip, dry, game_metrics, recorded, probe, notSkip>>

\* one pass of the producer's loop for a jpeg stream that exists: the frame is
\* skipped, or the quality is adjusted once more than 10 frames are recorded
\* and the frame is captured with it.  The loop has no add_frame(dropped=True):
\* dropped_frames stays as it is on every path
ProducerCycle ==
    /\ producer.pc = "loop"
    /\ producer.total_frames < MaxProducerFrames
    /\ \E skip \in BOOLEAN :
         IF skip
         THEN /\ producer' = [producer EXCEPT !.total_frames = @ + 1]
              /\ UNCHANGED controller
         ELSE LET adjusts == producer.adaptive /\ producer.total_frames > 10
              IN  \E current_fps \in IF adjusts THEN FpsReadings ELSE {0},
                     cpu_usage \in IF adjusts THEN CpuReadings ELSE {0} :
                    LET c2 == IF adjusts THEN adjust(controller, current_fps, cpu_usage)
                              ELSE controller
                        q == IF adjusts THEN c2.current_quality
                             ELSE producer.current_quality
                        low == producer.all_low
                               /\ (adjusts => FpsLow(controller, current_fps))
                    IN  /\ controller' = c2
                        /\ producer' =
                             IF ~Binds(AutoPushCaptureKeywords, CaptureScreenParams)
                             THEN [producer EXCEPT !.pc = "error", !.current_quality = q,
                                                   !.all_low = low]
                             ELSE [producer EXCEPT !.total_frames = @ + 1,
                                                   !.current_quality = q,
                                                   !.all_low = low,
                                                   !.used = @ \cup {q}]
    /\ UNCHANGED <<now, game_open, streaming, game_config, skipper, frames_sent,
                   _capture_cache, game_frames, game_sent, iterations,
                   skipRun, lastSkip, dry, game_metrics, recorded, probe, notSkip>>

NextQuality ==
    \/ NewController
    \/ ShouldAdjust
    \/ Adjust
    \/ UseGamingPreset
    \/ ProducerStart
    \/ ProducerCycle

SpecQuality == InitCache /\ [][NextQuality]_vars

\* the event loop runs the producer whenever it is ready
SpecQualityFair == SpecQuality /\ WF_vars(ProducerCycle)

\* C35: the cycle of the SSE producer whose capture raises is recorded as a
\* dropped frame: dropped_frames and total_frames each go up by one
FailedCaptureIsRecordedAsDropped ==
    [][(producer.pc = "loop" /\ producer'.pc = "error")
          => /\ producer'.dropped_frames = producer.dropped_frames + 1
             /\ producer'.total_frames = producer.total_frames + 1]_vars

\* C13: adjust lowers the quality by 5, not below min_quality, when the FPS
\* is under 0.85 of the target; raises it by 2, not above max_quality, when
\* the FPS is at least 0.95 of the target and the CPU is under 60; and leaves
\* it alone in every other case, a CPU over 80 included
AdjustFollowsTable ==
    probe.op = "adjust" =>
        LET q == probe.before.current_quality
            low == probe.current_fps * 100 < probe.before.target_fps * 85
            good == probe.current_fps * 100 >= probe.before.target_fps * 95
        IN  probe.after.current_quality =
                IF low THEN Max2(probe.before.min_quality, q - 5)
                ELSE IF good /\ probe.cpu_usage < 60
                THEN Min2(probe.before.max_quality, q + 2)
                ELSE q

\* adjust was called with a good FPS and a CPU over 80, and kept the quality
AdjustedWithBusyCpu ==
    /\ probe.op = "adjust"
    /\ probe.current_fps = 57 /\ probe.cpu_usage = 81
    /\ probe.after.current_quality = probe.before.current_quality

QualityChangesOnlyAtBoundaries ==
    (probe.op = "adjust"
        /\ probe.after.current_quality # probe.before.current_quality)
      => probe.before.frame_count % probe.before.adjustment_interval = 0

\* C16: a stream with adaptive quality whose observed FPS stays under 0.85
\* of the target has its quality lowered to 55 or less (within 11 frames: by
\* the time 11 frames are recorded)
LowFpsLowersQuality ==
    /\ [](( /\ producer.pc # "none" /\ producer.adaptive /\ producer.all_low
            /\ producer.total_frames >= 11)
             => producer.current_quality <= 55)
    /\ ((producer.pc # "none" /\ producer.adaptive)
           ~> (producer.current_quality <= 55 \/ ~producer.all_low))

(***************************************************************************)
(* The operations that set a frame rate or a quality, called with any      *)
(* arguments: enable_gaming_mode, use_gaming_preset, start_auto_push_stream *)
(* and the gaming endpoint's "start" and "adjust_quality" messages.         *)
(***************************************************************************)
ModeArgs == {"performance", "turbo"}
FpsArgs == {<<>>, <<0>>, <<30>>, <<121>>}
QualityArgs == {<<>>, <<0>>, <<40>>, <<101>>}
PushFpsArgs == {0, 5, 121}
AdjustArgs == {0, 40, 101}
PresetArgs == PresetNames \cup {"nosuch"}

\* a client calls the enable_gaming_mode tool
EnableGamingMode ==
    /\ iterations < MaxConfigCalls
    /\ iterations' = iterations + 1
    /\ \E mode \in ModeArgs, fps \in FpsArgs, quality \in QualityArgs,
          enable_frame_skip \in BOOLEAN :
         LET o == enable_gaming_mode(server_config, mode, fps, quality, enable_frame_skip)
         IN  /\ server_config' = o.config
             /\ lastTool' = Setting("enable_gaming_mode", fps, quality, o.error # None,
                                    o.config # server_config)
    /\ UNCHANGED <<varsCache, varsRpc, varsHub, varsStream, skipState, preset_config, push_fps,
                   varsBackend>>

\* a client calls the use_gaming_preset tool
UseGamingPresetTool ==
    /\ iterations < MaxConfigCalls
    /\ iterations' = iterations + 1
    /\ UseGamingPresetWith(PresetArgs, FpsArgs, QualityArgs)

\* a client calls the start_auto_push_stream tool
StartAutoPushFps ==
    /\ iterations < MaxConfigCalls
    /\ iterations' = iterations + 1
    /\ StartAutoPushToolWith(PushFpsArgs)

\* a "start" message with any config
GameStartCustom ==
    /\ iterations < MaxConfigCalls
    /\ GameStartWith(ModeArgs, FpsArgs, QualityArgs, {0})

\* the client's "adjust_quality" message: if config: config.quality = quality
GameAdjustQuality ==
    /\ game_open
    /\ iterations < MaxConfigCalls
    /\ iterations' = iterations + 1
    /\ \E quality \in AdjustArgs :
         /\ game_config' = IF game_config # NoConfig
                           THEN [game_config EXCEPT !.quality = quality]
                           ELSE game_config
         /\ lastTool' = Setting("adjust_quality", <<>>, <<quality>>, FALSE,
                                game_config # NoConfig /\ game_config.quality # quality)
    /\ UNCHANGED <<now, game_open, streaming, skipper, frames_sent,
                   _capture_cache, game_frames, game_sent, skipRun, lastSkip, dry,
                   game_metrics, recorded, controller, producer, probe, varsCache, varsRpc, varsHub,
                   varsStream, server_config, preset_config, push_fps, varsBackend>>

\* a "start" message for the default mode, with the default fps or fps 0
GameStartOrRaise == GameStartWith({"performance"}, {<<>>, <<0>>}, {<<>>}, {0})

\* the game-stream endpoint with every message a client sends
NextGame ==
    \/ GameConnect
    \/ GameStartOrRaise
    \/ GameAdjustQuality
    \/ GameFrame
    \/ GameStop

SpecGame == InitCache /\ [][NextGame]_vars

\* where a connection is: 0 created, 1 running, 2 stopped
GamePhase == IF ~game_open THEN 2 ELSE IF streaming THEN 1 ELSE 0

\* C36: a connection only moves forward through created, running, stopped; a
\* frame is sent only on a connection that is streaming, on which "started"
\* was sent and "stopped" was not; while "started" was not sent the session
\* is not streaming, whatever was received; once "stopped" was sent the
\* session is not streaming and the connection is closed
GameSessionMovesForward ==
    [][/\ game_open => GamePhase' >= GamePhase
       /\ frames_sent' # frames_sent
            => streaming /\ game_sent.started /\ ~game_sent.stopped
       /\ ~game_sent'.started => ~streaming'
       /\ game_sent'.stopped => ~streaming' /\ ~game_open']_vars

\* a connection that was started, sent a frame and was stopped
StoppedAfterFrames ==
    /\ game_sent.started /\ game_sent.stopped
    /\ game_frames.last # NoFrame
    /\ ~game_open

NextConfig ==
    \/ CreateStream
    \/ EnableGamingMode
    \/ UseGamingPresetTool
    \/ StartAutoPushFps
    \/ GameConnect
    \/ GameStartCustom
    \/ GameAdjustQuality
    \/ GameStop

SpecConfig == InitCache /\ [][NextConfig]_vars

\* C40: no call changes what get_config_from_preset(name) without overrides
\* returns for a loaded preset
PresetsStayAsLoaded ==
    [][\A preset_name \in PresetNames, adaptive_quality \in BOOLEAN :
          get_config_from_preset(preset_config', preset_name,
                                 [fps |-> <<>>, quality |-> <<>>], adaptive_quality).config
            = get_config_from_preset(preset_config, preset_name,
                                     [fps |-> <<>>, quality |-> <<>>],
                                     adaptive_quality).config]_vars

\* the last call passed an fps outside 1..120, or a quality outside 1..100
BadFps == Given(lastTool.fps) /\ (lastTool.fps[1] < 1 \/ lastTool.fps[1] > 120)
BadQuality ==
    Given(lastTool.quality) /\ (lastTool.quality[1] < 1 \/ lastTool.quality[1] > 100)

\* C17: the configured maximum fps, the rate of every auto-push task and the
\* fps of a running game stream are between 1 and 120, and a call that passed
\* an fps outside 1..120 was refused and changed nothing
FpsWithinRangeOrRefused ==
    /\ 1 <= server_config.gaming_max_fps /\ server_config.gaming_max_fps <= 120
    /\ \A s \in DOMAIN push_fps : 1 <= push_fps[s] /\ push_fps[s] <= 120
    /\ game_open /\ streaming => 1 <= game_config.fps /\ game_config.fps <= 120
    /\ BadFps => lastTool.refused /\ ~lastTool.changed

\* C18: the configured quality and the quality of an open game stream are
\* between 1 and 100, and a call that passed a quality outside 1..100 was
\* refused and kept the previous quality
QualityWithinRangeOrRefused ==
    /\ 1 <= server_config.gaming_quality /\ server_config.gaming_quality <= 100
    /\ game_open /\ game_config # NoConfig =>
           1 <= game_config.quality /\ game_config.quality <= 100
    /\ BadQuality => lastTool.refused /\ ~lastTool.changed

(***************************************************************************)
(* The connection registries with several clients: GET /sse with its       *)
(* queue and event_generator, and broadcast_to_sse_clients, called by a     *)
(* producer once per frame, in the order of the frames.                     *)
(***************************************************************************)
SseClients == {"c1", "c2"}

\* the notification of the n-th frame of a stream
Frame(n) == Updated("s1", [scheme |-> CaptureScheme, id |-> <<n, 0>>])
FrameNumber(message) == message.uri.id[1]

\* a queue that hands out the newest message first
QueuePutFirst(queue, message) == <<message>> \o queue

\* message_queue = asyncio.Queue(): no maxsize, put adds at the end and get
\* takes from the front
QueuePut(queue, message) == Append(queue, message)
QueueGet(queue) == [message |-> Head(queue), queue |-> Tail(queue)]

\* broadcast_to_sse_clients(message): under _connection_lock, a put on the
\* queue of every connection
broadcast_to_sse_clients(connections, message) ==
    [c \in DOMAIN connections |-> QueuePut(connections[c], message)]

\* GET /sse: a new connection id and an empty queue in the registry
HubSseConnect ==
    /\ \E connection_id \in SseClients \ DOMAIN sse_emitted :
         /\ _sse_connections' = With(_sse_connections, connection_id, <<>>)
         /\ sse_emitted' = With(sse_emitted, connection_id, <<>>)
    /\ UNCHANGED <<published, _ws_connections, ws_failed, lastBroadcast, varsCache, varsRpc,
                   varsStream, varsSkip, varsConfig, varsBackend>>

\* event_generator: message_queue.get() returns and the message is yielded
HubSseEmit ==
    /\ \E connection_id \in DOMAIN _sse_connections :
         /\ _sse_connections[connection_id] # <<>>
         /\ LET o == QueueGet(_sse_connections[connection_id])
            IN  /\ _sse_connections' = [_sse_connections EXCEPT ![connection_id] = o.queue]
                /\ sse_emitted' = [sse_emitted EXCEPT
                                      ![connection_id] = Append(@, o.message)]
    /\ UNCHANGED <<published, _ws_connections, ws_failed, lastBroadcast, varsCache, varsRpc,
                   varsStream, varsSkip, varsConfig, varsBackend>>

\* the client went away: event_generator's finally removes the connection
HubSseDisconnect ==
    /\ \E connection_id \in DOMAIN _sse_connections :
         _sse_connections' = Without(_sse_connections, connection_id)
    /\ UNCHANGED <<sse_emitted, published, _ws_connections, ws_failed, lastBroadcast,
                   varsCache, varsRpc, varsStream, varsSkip, varsConfig, varsBackend>>

\* a producer broadcasts the notification of its next frame
BroadcastToSseClients ==
    /\ published < MaxPublished
    /\ published' = published + 1
    /\ _sse_connections' = broadcast_to_sse_clients(_sse_connections, Frame(published + 1))
    /\ UNCHANGED <<sse_emitted, _ws_connections, ws_failed, lastBroadcast, varsCache,
                   varsRpc, varsStream, varsSkip, varsConfig, varsBackend>>

NextSseHub ==
    \/ HubSseConnect
    \/ HubSseEmit
    \/ HubSseDisconnect
    \/ BroadcastToSseClients

SpecSseHub == InitCache /\ [][NextSseHub]_vars

\* C24: no queue of a registered SSE connection holds more than 10 messages
SseQueuesBounded ==
    \A c \in DOMAIN _sse_connections : Len(_sse_connections[c]) <= 10

\* the messages a connection has yielded followed by those it still holds
Observed(c) ==
    sse_emitted[c] \o (IF c \in DOMAIN _sse_connections THEN _sse_connections[c] ELSE <<>>)

WsClients == {"w1", "w2"}

\* broadcast_binary_resource(resource) and broadcast_to_ws_clients(message):
\* under _connection_lock, a send to every registered connection whose
\* client_state is CONNECTED; a send that raises is logged.  stale are the
\* connections the state test passes over, fails those whose send raises:
\* [connections, tried, failed]
\* the registry's items(), taken in this order
WsOrder == <<"w1", "w2">>

\* a loop without the try around the send: the first send that raises ends
\* the broadcast
RECURSIVE SendUntilFailure(_, _, _, _, _)
SendUntilFailure(i, connections, stale, fails, done) ==
    IF i > Len(WsOrder) THEN done
    ELSE LET connection_id == WsOrder[i]
         IN  IF connection_id \notin connections \/ connection_id \in stale
             THEN SendUntilFailure(i + 1, connections, stale, fails, done)
             ELSE IF connection_id \in fails
             THEN [done EXCEPT !.tried = @ \cup {connection_id},
                               !.failed = @ \cup {connection_id}, !.raised = TRUE]
             ELSE SendUntilFailure(i + 1, connections, stale, fails,
                      [done EXCEPT !.tried = @ \cup {connection_id},
                                   !.received = @ \cup {connection_id}])

\* for connection_id, websocket in _ws_connections.items(), from the i-th
\* item on: the send is tried where client_state is CONNECTED, and a send
\* that raises is logged
RECURSIVE SendToEach(_, _, _, _, _)
SendToEach(i, connections, stale, fails, done) ==
    IF i > Len(WsOrder) THEN done
    ELSE LET connection_id == WsOrder[i]
         IN  IF connection_id \notin connections \/ connection_id \in stale
             THEN SendToEach(i + 1, connections, stale, fails, done)
             ELSE IF connection_id \in fails
             THEN SendToEach(i + 1, connections, stale, fails,
                      [done EXCEPT !.tried = @ \cup {connection_id},
                                   !.failed = @ \cup {connection_id}])
             ELSE SendToEach(i + 1, connections, stale, fails,
                      [done EXCEPT !.tried = @ \cup {connection_id},
                                   !.received = @ \cup {connection_id}])

\* a broadcast that the first failing send ends
BroadcastStopsAtFailure(connections, stale, fails) ==
    SendUntilFailure(1, connections, stale, fails,
                     [connections |-> connections, tried |-> {}, failed |-> {},
                      received |-> {}, raised |-> FALSE])

\* broadcast_binary_resource(resource): [connections, tried, failed,
\* received, raised]
broadcast_binary_resource(connections, stale, fails) ==
    SendToEach(1, connections, stale, fails,
               [connections |-> connections, tried |-> {}, failed |-> {},
                received |-> {}, raised |-> FALSE])

\* a client opens the WebSocket: accept, registration under _connection_lock
HubWsConnect ==
    /\ \E connection_id \in WsClients \ (_ws_connections \cup ws_failed) :
         _ws_connections' = _ws_connections \cup {connection_id}
    /\ UNCHANGED <<_sse_connections, sse_emitted, published, ws_failed, lastBroadcast,
                   varsCache, varsRpc, varsStream, varsSkip, varsConfig, varsBackend>>

\* the endpoint's receive raises WebSocketDisconnect: its finally removes the
\* connection from the registry
HubWsDisconnect ==
    /\ \E connection_id \in _ws_connections :
         _ws_connections' = _ws_connections \ {connection_id}
    /\ UNCHANGED <<_sse_connections, sse_emitted, published, ws_failed, lastBroadcast,
                   varsCache, varsRpc, varsStream, varsSkip, varsConfig, varsBackend>>

\* a producer broadcasts a frame: the sends to some clients fail, and a client
\* whose send failed earlier may or may not still count as CONNECTED
BroadcastBinaryResource ==
    /\ lastBroadcast.n < MaxWsBroadcasts
    /\ \E stale \in SUBSET (_ws_connections \cap ws_failed) :
         \E fails \in SUBSET (_ws_connections \ stale) :
            LET o == broadcast_binary_resource(_ws_connections, stale, fails)
            IN  /\ _ws_connections' = o.connections
                /\ ws_failed' = ws_failed \cup o.failed
                /\ lastBroadcast' = [n |-> lastBroadcast.n + 1, tried |-> o.tried,
                                     failed_before |-> o.tried \cap ws_failed,
                                     failed |-> o.failed, received |-> o.received,
                                     raised |-> o.raised]
    /\ UNCHANGED <<_sse_connections, sse_emitted, published, varsCache, varsRpc,
                   varsStream, varsSkip, varsConfig, varsBackend>>

NextWsHub ==
    \/ HubWsConnect
    \/ HubWsDisconnect
    \/ BroadcastBinaryResource

SpecWsHub == InitCache /\ [][NextWsHub]_vars

\* C25: a connection that a broadcast's send has failed for is no longer in
\* the registry, and no later broadcast has tried to send to it
FailedSubscriberIsDropped ==
    /\ _ws_connections \cap ws_failed = {}
    /\ lastBroadcast.failed_before = {}

\* C33: a send that fails for one client does not stop the broadcast: every
\* other client that is registered and connected gets the frame, and the
\* broadcast returns to the producer without raising
BroadcastSurvivesFailedSend ==
    /\ lastBroadcast.received = lastBroadcast.tried \ lastBroadcast.failed
    /\ ~lastBroadcast.raised

\* the send to the first client failed and the second client got the frame
SecondClientServedAfterFailure ==
    /\ lastBroadcast.failed = {WsOrder[1]}
    /\ lastBroadcast.received = {WsOrder[2]}

(***************************************************************************)
(* The capture backends: OptimizedWindowsCapture chooses its active        *)
(* backend when the ScreenCapture singleton is made, and every grab tries  *)
(* it before mss.                                                          *)
(***************************************************************************)
\* _capture_screen_sync calls explored per behaviour of SpecBackend
MaxBackendGrabs == 4

Platforms == {"Windows", "Linux"}

\* how backend_class() followed by backend.initialize() may go: it returns
\* True, it returns False, or it raises
InitOutcomes == {"ok", "false", "raised"}

\* backends_to_try, in the order the loop visits them
backends_to_try == <<"wgc", "dxgi">>

\* the loop of _initialize_backends over backends_to_try[i..], from the
\* backends and the active backend found so far
RECURSIVE TryBackends(_, _, _, _)
TryBackends(i, outcome, found, active) ==
    IF i > Len(backends_to_try)
    THEN [backends |-> found, active_backend |-> active]
    ELSE LET backend_name == backends_to_try[i]
         IN  IF outcome[backend_name] = "ok"
             THEN TryBackends(i + 1, outcome, found \cup {backend_name},
                              IF active = None THEN backend_name ELSE active)
             ELSE TryBackends(i + 1, outcome, found, active)

\* OptimizedWindowsCapture._initialize_backends
_initialize_backends(system, outcome) ==
    IF system # "Windows"
    THEN [backends |-> {}, active_backend |-> None]
    ELSE TryBackends(1, outcome, {}, None)

\* ScreenCapture.__init__ at startup: off Windows get_windows_capture is not
\* called and no backend can initialize
ScreenCaptureInit ==
    /\ platform_system = None
    /\ \E system \in Platforms, wgc \in InitOutcomes, dxgi \in InitOutcomes :
         LET outcome == IF system = "Windows"
                        THEN [wgc |-> wgc, dxgi |-> dxgi]
                        ELSE [wgc |-> "false", dxgi |-> "false"]
             made == _initialize_backends(system, outcome)
         IN  /\ platform_system' = system
             /\ booted' = outcome
             /\ backends' = made.backends
             /\ active_backend' = made.active_backend
    /\ UNCHANGED <<_performance_stats, lastGrab, varsCache, varsRpc, varsHub, varsStream,
                   varsSkip, varsConfig>>

\* OptimizedWindowsCapture.capture_optimized: the backend whose image is
\* returned, or None
capture_optimized(active, found, grabbed) ==
    IF active = None \/ found = {} THEN None
    ELSE IF grabbed THEN active ELSE None

\* ScreenCapture._capture_screen_sync(monitor, region, format): with a
\* Windows capture object and no region the active backend is tried, and mss
\* is used when that gives no image
CaptureScreenSync ==
    /\ platform_system # None
    /\ _performance_stats.windows_opt_captures + _performance_stats.mss_captures
         < MaxBackendGrabs
    /\ \E region \in BOOLEAN, grabbed \in BOOLEAN :
         LET img == IF platform_system = "Windows" /\ ~region
                    THEN capture_optimized(active_backend, backends, grabbed)
                    ELSE None
         IN  /\ _performance_stats' =
                    IF img # None
                    THEN [_performance_stats EXCEPT !.windows_opt_captures = @ + 1]
                    ELSE [_performance_stats EXCEPT !.mss_captures = @ + 1]
             /\ lastGrab' = [region |-> region,
                             backend |-> IF img # None THEN img ELSE "mss"]
    /\ UNCHANGED <<platform_system, backends, active_backend, booted, varsCache, varsRpc,
                   varsHub, varsStream, varsSkip, varsConfig>>

NextBackend ==
    \/ ScreenCaptureInit
    \/ CaptureScreenSync

SpecBackend == InitCache /\ [][NextBackend]_vars

\* C29: after startup the active backend is the highest-ranked one that
\* initialized, in the order DXGI, WGC, fallback: DXGI when it initialized,
\* WGC only when DXGI failed, none (the mss fallback) when both failed
HighestRankedBackendIsActive ==
    platform_system # None =>
        active_backend = IF booted.dxgi = "ok" THEN "dxgi"
                         ELSE IF booted.wgc = "ok" THEN "wgc"
                         ELSE None

====
